---- MODULE Spec2Model ----
(***************************************************************************)
(* Model of the track bookkeeping of cv-mouse-burrows:                     *)
(*   - the object assignment engine of pass 1 (FirstPass.find_objects,     *)
(*     _handle_object_tracks, _end_current_tracks, process),               *)
(*   - the burrow track lifecycle of pass 1 (FirstPass.find_burrows),      *)
(*   - the burrow track lifecycle of pass 3 (ThirdPass.find_burrows,       *)
(*     store_burrows, active_burrows, process).                            *)
(* The three engines keep their track state in different objects           *)
(* (self.tracks / result['objects/tracks'], pass 1's                       *)
(* result['burrows/tracks'], pass 3's self.burrows /                       *)
(* result['burrows/tracks']); the variable engine says which of them a     *)
(* behaviour explores.                                                     *)
(*                                                                         *)
(* Python lists are sequences, so indices are 1-based here where the code  *)
(* is 0-based.  Floating point scores are fixed-point numbers in units of  *)
(* 1/Milli.  Image processing and polygon geometry (OpenCV, shapely) are   *)
(* inputs: an action draws their outcomes from small sets.                 *)
(***************************************************************************)
EXTENDS Integers, Sequences, FiniteSets, TLC

VARIABLES
    engine,         \* "objects", "burrows1" or "pass3"
    pc,             \* position of process(): "iterating", "done" or "crashed"
    frame_id,       \* self.frame_id
    tracks,         \* FirstPass.tracks: the active object tracks
    result_tracks,  \* result['objects/tracks']
    next_id,        \* identity of the next ObjectTrack instance created
    call,           \* what the last call of find_objects did (history)
    burrow_tracks,  \* result['burrows/tracks'] of the pass that runs
    step,           \* position inside the analysis of a frame
    todo,           \* pass 1: the labelled regions find_burrows still has to
                    \* handle; pass 3: the index of the burrow store_burrows
                    \* handles next
    bcall,          \* what the last iteration over a burrow did (history)
    burrows,        \* ThirdPass.burrows
    mouse_trail,    \* ThirdPass.mouse_trail
    ground,         \* pass 3: the region below the ground line, self.ground
    arg,            \* the arguments of the function that is applied
    ret,            \* what the function returned or raised
    params          \* self.params: the parameters of the object tracking

objvars == <<tracks, result_tracks, next_id, call>>
burvars == <<burrow_tracks, todo, bcall, burrows, mouse_trail, ground>>
fnvars == <<arg, ret>>
vars == <<engine, pc, frame_id, step, objvars, burvars, fnvars, params>>

----------------------------------------------------------------------------
(* Bounds of the model *)

\* number of frames the video iterator yields at most
MaxFrames == 2

\* number of regions ndimage.measurements.label finds at most in a frame
MaxRegions == 2

\* number of frames pass 1 analyses for burrows at most
MaxBurrowFrames == 3

\* number of frames pass 3 analyses at most
MaxFrames3 == 5

\* largest centerline length store_burrows computes
MaxLength == 2

\* fixed-point resolution of scores and distances
Milli == 10 * 100

----------------------------------------------------------------------------
(* Parameters of the analysis (self.params) *)

\* video/frames[0], the frame offset
FrameOffset == 0
\* mouse/area_max
AreaMax == 9
\* mouse/area_min
AreaMin == 2
\* mouse/speed_max
SpeedMax == 2
\* mouse/max_rel_area_change as the fraction MaxRelAreaNum/MaxRelAreaDen
MaxRelAreaNum == 1
MaxRelAreaDen == 2
\* tracking/weight (alpha) as the fraction AlphaNum/AlphaDen
AlphaNum == 1
AlphaDen == 2
\* tracking/object_count_max: find_objects raises the threshold until at
\* most this many contours are left
ObjectCountMax == 2
\* mouse/max_count
MouseMaxCount == 1
\* burrows/adaptation_interval
AdaptationInterval == 1
\* burrows/width, in cells
BurrowWidth == 1
\* burrows/width_min, in cells
BurrowWidthMin == 0
\* np.inf in the score matrix: larger than every score
Inf == 1000000000

\* self.params as far as the object tracking reads it
DefaultParams ==
    [area_max |-> AreaMax, area_min |-> AreaMin, speed_max |-> SpeedMax,
     max_rel_area_num |-> MaxRelAreaNum, max_rel_area_den |-> MaxRelAreaDen,
     alpha_num |-> AlphaNum, alpha_den |-> AlphaDen]

----------------------------------------------------------------------------
(* Generic helpers on sequences *)

Range(s) == {s[i] : i \in 1..Len(s)}

RECURSIVE SumSeq(_)
SumSeq(s) == IF s = <<>> THEN 0 ELSE Head(s) + SumSeq(Tail(s))

\* list.remove(x): drops the first occurrence of x
ListRemove(s, x) ==
    IF \E i \in 1..Len(s) : s[i] = x
    THEN LET k == CHOOSE i \in 1..Len(s) : s[i] = x /\ \A j \in 1..(i-1) : s[j] # x
         IN  [i \in 1..(Len(s)-1) |-> IF i < k THEN s[i] ELSE s[i+1]]
    ELSE s

\* a variant of del s[k] that deletes the first entry
ListDeleteFirst(s, k) == Tail(s)

\* del s[k]
ListDelete(s, k) == [i \in 1..(Len(s)-1) |-> IF i < k THEN s[i] ELSE s[i+1]]

\* the subsequence of the entries whose index satisfies keep
RECURSIVE SelectIdx(_, _, _)
SelectIdx(s, keep, i) ==
    IF i > Len(s) THEN <<>>
    ELSE (IF i \in keep THEN <<s[i]>> ELSE <<>>) \o SelectIdx(s, keep, i + 1)

Abs(x) == IF x < 0 THEN -x ELSE x

\* floor of the square root, by bisection
RECURSIVE ISqrtB(_, _, _)
ISqrtB(x, lo, hi) ==
    IF lo >= hi THEN lo
    ELSE LET mid == (lo + hi + 1) \div 2
         IN  IF mid * mid <= x THEN ISqrtB(x, mid, hi) ELSE ISqrtB(x, lo, mid - 1)

ISqrt(x) == ISqrtB(x, 0, 40000)

\* the square roots of the small numbers, in units of 1/Milli, computed once
SqrtTableMax == 20 * 10
SqrtMilliTable == [d2 \in 0..SqrtTableMax |-> ISqrt(d2 * Milli * Milli)]

\* euclidean distance of two points in units of 1/Milli
DistMilli(p, q) ==
    LET d2 == (p[1]-q[1])*(p[1]-q[1]) + (p[2]-q[2])*(p[2]-q[2])
    IN  IF d2 <= SqrtTableMax THEN SqrtMilliTable[d2] ELSE ISqrt(d2 * Milli * Milli)

----------------------------------------------------------------------------
(* Inputs: the contours cv2.findContours returns for a frame *)

\* a contour is given by its moments: area m00 and centre of mass
Contours ==
    { [pos |-> <<0, 0>>, area |-> 3], [pos |-> <<1, 1>>, area |-> 3],
      [pos |-> <<3, 0>>, area |-> 6], [pos |-> <<1, 1>>, area |-> 6],
      [pos |-> <<0, 0>>, area |-> 2], [pos |-> <<3, 0>>, area |-> 1],
      [pos |-> <<1, 1>>, area |-> 0], [pos |-> <<3, 0>>, area |-> 9] }

ContourLists ==
    UNION { [1..n -> Contours] : n \in 0..ObjectCountMax }

----------------------------------------------------------------------------
(* ObjectTrack and MovingObject (objects/moving_objects.py) *)

MovingObject(pos, size, label) == [pos |-> pos, size |-> size, label |-> label]

\* ObjectTrack([time], [obj]); id stands for the identity of the instance
ObjectTrack(id, time, obj) == [id |-> id, times |-> <<time>>, objects |-> <<obj>>]

\* ObjectTrack.append(time, obj)
TrackAppend(t, time, obj) ==
    [t EXCEPT !.times = Append(@, time), !.objects = Append(@, obj)]

\* ObjectTrack.last
Last(t) == t.objects[Len(t.objects)]

\* ObjectTrack.predict_pos(): linear extrapolation from the last two
\* observations, the last position if there is only one
PredictPos(t) ==
    LET n == Len(t.objects)
    IN  IF n < 2 THEN t.objects[n].pos
        ELSE <<2 * t.objects[n].pos[1] - t.objects[n-1].pos[1],
               2 * t.objects[n].pos[2] - t.objects[n-1].pos[2]>>

\* ObjectTrack.moving_window_frames and moving_threshold_pixel_frame (in 1/Milli)
MovingWindow == 2
MovingThresholdMilli == 500

\* ObjectTrack.is_moving(): the summed distance of the last observations of
\* the window to the current position exceeds threshold * window
IsMoving(t) ==
    LET n == Len(t.objects)
        lo == IF n > MovingWindow THEN n - MovingWindow + 1 ELSE 1
        d == [k \in 1..(n - lo + 1) |->
                 DistMilli(t.objects[n].pos, t.objects[lo + k - 1].pos)]
    IN  SumSeq(d) > MovingThresholdMilli * MovingWindow

----------------------------------------------------------------------------
(* FirstPass._find_objects_in_binary_image *)

NoObjects == "None"

\* the loop over the contours: objects collects the objects larger than
\* mouse/area_min, largest the largest smaller one
RECURSIVE FindObjectsLoop(_, _, _, _)
FindObjectsLoop(contours, k, objects, largest) ==
    IF k > Len(contours) THEN [objects |-> objects, largest |-> largest]
    ELSE LET area == contours[k].area
         IN  IF ~(0 < area /\ area < params.area_max)
             THEN FindObjectsLoop(contours, k + 1, objects, largest)
             ELSE IF area > params.area_min
             THEN FindObjectsLoop(contours, k + 1,
                      Append(objects, MovingObject(contours[k].pos, area, k)),
                      largest)
             ELSE IF area > largest.size
             THEN FindObjectsLoop(contours, k + 1, objects,
                      MovingObject(contours[k].pos, area, k))
             ELSE FindObjectsLoop(contours, k + 1, objects, largest)

FindObjectsInBinaryImage(contours) ==
    LET r == FindObjectsLoop(contours, 1, <<>>, MovingObject(<<0, 0>>, 0, 0))
    IN  IF Len(r.objects) = 0
        THEN IF r.largest.size = 0 THEN NoObjects ELSE <<r.largest>>
        ELSE r.objects

----------------------------------------------------------------------------
(* FirstPass._end_current_tracks *)

\* _end_current_tracks without the copy to the results
EndCurrentTracksDrop(st) == [st EXCEPT !.tracks = <<>>]

\* st is the record [tracks, result, next_id] of the state the tracking
\* functions change
EndCurrentTracks(st) ==
    [st EXCEPT !.result = st.result \o st.tracks, !.tracks = <<>>]

----------------------------------------------------------------------------
(* FirstPass._handle_object_tracks *)

\* area_score(area1, area2)/max_rel_area_change, in 1/Milli
AreaScoreMilli(area1, area2) ==
    (((Milli * Abs(area1 - area2)) \div (area1 + area2))
        * params.max_rel_area_den) \div params.max_rel_area_num

\* a variant of the score that leaves the areas out
ScoreMatrixDistanceOnly(objects_found, trks) ==
    [p \in (1..Len(objects_found)) \X (1..Len(trks)) |->
        (params.alpha_num
            * (DistMilli(objects_found[p[1]].pos, PredictPos(trks[p[2]]))
                  \div params.speed_max))
        \div params.alpha_den]

\* score = alpha*dist/speed_max + (1 - alpha)*areas, in 1/Milli; rows are the
\* objects found, columns the active tracks
ScoreMatrix(objects_found, trks) ==
    [p \in (1..Len(objects_found)) \X (1..Len(trks)) |->
        (params.alpha_num
            * (DistMilli(objects_found[p[1]].pos, PredictPos(trks[p[2]]))
                  \div params.speed_max)
         + (params.alpha_den - params.alpha_num)
              * AreaScoreMilli(objects_found[p[1]].size, Last(trks[p[2]]).size))
        \div params.alpha_den]

\* ScoreMin taking the first entry of the matrix instead of its minimum
ScoreMinFirstEntry(score) == score[<<1, 1>>]

\* score.min()
ScoreMin(score) ==
    CHOOSE m \in {score[p] : p \in DOMAIN score} :
        \A p \in DOMAIN score : m <= score[p]

\* a variant that takes the last entry in row-major order
ArgLast(score, score_min) ==
    CHOOSE p \in DOMAIN score :
        /\ score[p] = score_min
        /\ \A q \in DOMAIN score :
              score[q] = score_min =>
                  (q[1] < p[1] \/ (q[1] = p[1] /\ q[2] <= p[2]))

\* np.argwhere(score == score_min)[0]: the first entry in row-major order
ArgFirst(score, score_min) ==
    CHOOSE p \in DOMAIN score :
        /\ score[p] = score_min
        /\ \A q \in DOMAIN score :
              score[q] = score_min =>
                  (p[1] < q[1] \/ (p[1] = q[1] /\ p[2] <= q[2]))

\* Eliminate with the column left in place: only the row of the object is set
\* to np.inf
EliminateRowOnly(score, i_f, i_e) ==
    [p \in DOMAIN score |-> IF p[1] = i_f THEN Inf ELSE score[p]]

\* score[i_f, :] = np.inf; score[:, i_e] = np.inf
Eliminate(score, i_f, i_e) ==
    [p \in DOMAIN score |-> IF p[1] = i_f \/ p[2] = i_e THEN Inf ELSE score[p]]

\* the loop `while True` of the assignment; binds lists the pairs
\* <<i_f, i_e, score_min>> in the order they are bound
RECURSIVE GreedyLoop(_, _, _, _, _)
GreedyLoop(score, idx_f, idx_e, binds, fuel) ==
    LET score_min == ScoreMin(score)
    IN  IF score_min > Milli \/ fuel = 0
        THEN [idx_f |-> idx_f, idx_e |-> idx_e, binds |-> binds, score |-> score]
        ELSE LET p == ArgFirst(score, score_min)
             IN  GreedyLoop(Eliminate(score, p[1], p[2]),
                            ListRemove(idx_f, p[1]), ListRemove(idx_e, p[2]),
                            Append(binds, <<p[1], p[2], score_min>>), fuel - 1)

\* a variant of ApplyBinds that appends the observation of the first bound
\* pair only
ApplyBindsFirstOnly(trks, binds, objects_found, f) ==
    IF binds = <<>> THEN trks
    ELSE [trks EXCEPT ![Head(binds)[2]] =
             TrackAppend(@, f, objects_found[Head(binds)[1]])]

\* self.tracks[i_e].append(self.frame_id, objects_found[i_f]) for the bound
\* pairs, in the order of binding
RECURSIVE ApplyBinds(_, _, _, _)
ApplyBinds(trks, binds, objects_found, f) ==
    IF binds = <<>> THEN trks
    ELSE LET b == Head(binds)
         IN  ApplyBinds([trks EXCEPT ![b[2]] = TrackAppend(@, f, objects_found[b[1]])],
                        Tail(binds), objects_found, f)

\* EndUnmatched without `del self.tracks[i_e]`: the track is copied to the
\* result and stays active
RECURSIVE EndUnmatchedNoDel(_, _, _)
EndUnmatchedNoDel(trks, result, idx_e) ==
    IF idx_e = <<>> THEN [tracks |-> trks, result |-> result]
    ELSE LET i_e == idx_e[Len(idx_e)]
         IN  EndUnmatchedNoDel(trks, Append(result, trks[i_e]),
                               SubSeq(idx_e, 1, Len(idx_e) - 1))

\* for i_e in reversed(idx_e): result.append(self.tracks[i_e]); del self.tracks[i_e]
RECURSIVE EndUnmatched(_, _, _)
EndUnmatched(trks, result, idx_e) ==
    IF idx_e = <<>> THEN [tracks |-> trks, result |-> result]
    ELSE LET i_e == idx_e[Len(idx_e)]
         IN  EndUnmatched(ListDelete(trks, i_e), Append(result, trks[i_e]),
                          SubSeq(idx_e, 1, Len(idx_e) - 1))

\* for i_f in idx_f: self.tracks.append(ObjectTrack([frame_id], [objects_found[i_f]]))
RECURSIVE StartTracks(_, _, _, _, _)
StartTracks(trks, idx_f, objects_found, f, id) ==
    IF idx_f = <<>> THEN trks
    ELSE StartTracks(Append(trks, ObjectTrack(id, f, objects_found[Head(idx_f)])),
                     Tail(idx_f), objects_found, f, id + 1)

\* The record a call returns: the new [tracks, result, next_id] and, for the
\* history, the branch taken, the objects found, the score matrix, the pairs
\* bound and the index lists when the loop ended.
NoCall ==
    [branch |-> "none", contours |-> <<>>, objects_found |-> <<>>,
     before |-> <<>>, score |-> <<>>,
     binds |-> <<>>, idx_f |-> <<>>, idx_e |-> <<>>, score_end |-> <<>>,
     result_before |-> <<>>, after |-> <<>>, result_after |-> <<>>,
     moving |-> <<>>]

HandleObjectTracks(st, contours, f) ==
    LET objects_found == FindObjectsInBinaryImage(contours)
        base == [NoCall EXCEPT !.contours = contours, !.before = st.tracks,
                               !.result_before = st.result]
    IN  IF objects_found = NoObjects
        THEN LET e == EndCurrentTracks(st)
             IN  [st |-> e,
                  call |-> [base EXCEPT !.branch = "no_objects",
                                        !.after = e.tracks,
                                        !.result_after = e.result]]
        ELSE IF Len(st.tracks) = 0
        THEN LET n == Len(objects_found)
                 new == [i \in 1..n |-> ObjectTrack(st.next_id + i - 1, f, objects_found[i])]
             IN  [st |-> [st EXCEPT !.tracks = new, !.next_id = st.next_id + n],
                  call |-> [base EXCEPT !.branch = "no_tracks",
                                        !.objects_found = objects_found,
                                        !.after = new,
                                        !.result_after = st.result]]
        ELSE LET score == ScoreMatrix(objects_found, st.tracks)
                 n_f == Len(objects_found)
                 n_e == Len(st.tracks)
                 g == GreedyLoop(score, [i \in 1..n_f |-> i], [i \in 1..n_e |-> i],
                                 <<>>, n_f * n_e + 1)
                 bound == ApplyBinds(st.tracks, g.binds, objects_found, f)
                 ended == EndUnmatched(bound, st.result, g.idx_e)
                 started == StartTracks(ended.tracks, g.idx_f, objects_found, f,
                                        st.next_id)
             IN  [st |-> [tracks |-> started, result |-> ended.result,
                          next_id |-> st.next_id + Len(g.idx_f)],
                  call |-> [base EXCEPT !.branch = "match",
                                        !.objects_found = objects_found,
                                        !.score = score,
                                        !.binds = g.binds,
                                        !.idx_f = g.idx_f,
                                        !.idx_e = g.idx_e,
                                        !.score_end = g.score,
                                        !.after = started,
                                        !.result_after = ended.result]]

----------------------------------------------------------------------------
(* FirstPass.find_objects *)

\* np.nonzero(obj_moving)[0]: the indices of the moving tracks, ascending
RECURSIVE NonZero(_, _)
NonZero(flags, i) ==
    IF i > Len(flags) THEN <<>>
    ELSE (IF flags[i] THEN <<i>> ELSE <<>>) \o NonZero(flags, i + 1)

\* np.argsort(values): the indices of values in ascending order of the
\* values (equal values in the order of their indices)
RECURSIVE ArgSortRest(_, _)
ArgSortRest(values, left) ==
    IF left = {} THEN <<>>
    ELSE LET k == CHOOSE i \in left :
                     \A j \in left : values[i] < values[j]
                                     \/ (values[i] = values[j] /\ i <= j)
         IN  <<k>> \o ArgSortRest(values, left \ {k})

ArgSort(values) == ArgSortRest(values, DOMAIN values)

\* obj_keep = set(obj_id_moving[obj_largest[:mouse_max_count]])
ObjKeep(trks, obj_id_moving) ==
    LET sizes == [k \in 1..Len(obj_id_moving) |-> Last(trks[obj_id_moving[k]]).size]
        obj_largest == ArgSort(sizes)
        n == IF Len(obj_largest) < MouseMaxCount THEN Len(obj_largest)
             ELSE MouseMaxCount
    IN  {obj_id_moving[obj_largest[k]] : k \in 1..n}

\* FilterMoving without the test `if any(obj_moving)`
FilterMovingAlways(st) ==
    LET obj_moving == [k \in 1..Len(st.tracks) |-> IsMoving(st.tracks[k])]
        obj_keep == ObjKeep(st.tracks, NonZero(obj_moving, 1))
    IN  [st EXCEPT !.tracks = SelectIdx(st.tracks, obj_keep, 1),
                   !.result = st.result
                       \o SelectIdx(st.tracks, (1..Len(st.tracks)) \ obj_keep, 1)]

\* the filter of the moving objects: the tracks of obj_keep stay, the others
\* are appended to the result in the order of self.tracks
FilterMoving(st) ==
    LET obj_moving == [k \in 1..Len(st.tracks) |-> IsMoving(st.tracks[k])]
    IN  IF \E k \in 1..Len(st.tracks) : obj_moving[k]
        THEN LET obj_keep == ObjKeep(st.tracks, NonZero(obj_moving, 1))
                 all == 1..Len(st.tracks)
             IN  [st EXCEPT !.tracks = SelectIdx(st.tracks, obj_keep, 1),
                            !.result = st.result
                                \o SelectIdx(st.tracks, all \ obj_keep, 1)]
        ELSE st

\* find_objects for the contours found in the frame f; moving records
\* obj_moving as line 931 computes it
FindObjectsOn(st, contours, f) ==
    IF Len(contours) = 0
    THEN LET e == EndCurrentTracks(st)
         IN  [st |-> e,
              call |-> [NoCall EXCEPT !.branch = "no_features",
                                      !.contours = contours,
                                      !.before = st.tracks,
                                      !.result_before = st.result,
                                      !.after = e.tracks,
                                      !.result_after = e.result]]
    ELSE LET h == HandleObjectTracks(st, contours, f)
         IN  [st |-> FilterMoving(h.st),
              call |-> [h.call EXCEPT !.moving =
                           [k \in 1..Len(h.st.tracks) |-> IsMoving(h.st.tracks[k])]]]

----------------------------------------------------------------------------
(* The object engine of pass 1: FirstPass.process and _iterate_over_video *)

ObjState == [tracks |-> tracks, result |-> result_tracks, next_id |-> next_id]

\* None where a burrow is expected: no burrow covers no cell
NoBurrow == [cells |-> {}]

\* the burrow state before any burrow was looked at
NoBurrowCall ==
    [kind |-> "none", frame |-> 0, cand |-> {}, track_ids |-> <<>>, target |-> 0,
     burrow |-> NoBurrow, valid |-> FALSE, before |-> <<>>]

\* mouse_trail is None: a trail covers at least one cell
NoTrail == {}

BurInit ==
    /\ burrow_tracks = <<>>
    /\ todo = <<>>
    /\ bcall = NoBurrowCall
    /\ burrows = <<>>
    /\ mouse_trail = NoTrail
    /\ ground = {}

\* no function is applied
NoArg == <<>>
NoRet == [kind |-> "none"]

FnInit ==
    /\ arg = NoArg
    /\ ret = NoRet
    /\ params = DefaultParams

ObjInit ==
    /\ tracks = <<>>
    /\ result_tracks = <<>>
    /\ next_id = 1
    /\ call = NoCall

InitObjects ==
    /\ engine = "objects"
    /\ pc = "iterating"
    /\ step = "idle"
    /\ frame_id = FrameOffset
    /\ ObjInit
    /\ BurInit
    /\ FnInit

\* one iteration of the loop of _iterate_over_video, as far as the object
\* tracks go: the next frame is taken and find_objects analyses it
FindObjects ==
    /\ engine = "objects"
    /\ pc = "iterating"
    /\ frame_id < FrameOffset + MaxFrames
    /\ \E contours \in ContourLists :
          LET r == FindObjectsOn(ObjState, contours, frame_id + 1)
          IN  /\ frame_id' = frame_id + 1
              /\ tracks' = r.st.tracks
              /\ result_tracks' = r.st.result
              /\ next_id' = r.st.next_id
              /\ call' = r.call
    /\ UNCHANGED <<params, fnvars, engine, pc, step, burvars>>

\* the iteration ends, because the video is exhausted or because
\* KeyboardInterrupt/SystemExit was raised; the finally clause of process()
\* calls _end_current_tracks
EndProcess1 ==
    /\ engine = "objects"
    /\ pc = "iterating"
    /\ LET e == EndCurrentTracks(ObjState)
       IN  /\ tracks' = e.tracks
           /\ result_tracks' = e.result
    /\ pc' = "done"
    /\ UNCHANGED <<params, fnvars, engine, frame_id, step, next_id, call, burvars>>

NextObjects == FindObjects \/ EndProcess1

SpecObjects == InitObjects /\ [][NextObjects]_vars

----------------------------------------------------------------------------
(* Burrows and burrow tracks (objects/burrow.py).  The image is a strip of *)
(* cells; a burrow polygon is the set of the cells it covers.              *)

Cells == 1..3

\* the connected regions of the strip
Intervals == {a..b : a \in Cells, b \in Cells} \ {{}}

\* cv2.dilate, geometry.buffer: the cells within distance r of a region
Buffer(c, r) == {x \in Cells : \E y \in c : Abs(x - y) <= r}

\* polygon.distance: the distance of two non-empty regions
Distance(c1, c2) ==
    CHOOSE d \in 0..Cardinality(Cells) :
        /\ \E x \in c1, y \in c2 : Abs(x - y) = d
        /\ \A x \in c1, y \in c2 : Abs(x - y) >= d

\* Burrow.intersects
Intersects(b1, b2) == b1.cells \cap b2.cells # {}

\* BurrowTrack(time, burrow)
BurrowTrack(time, burrow) == [times |-> <<time>>, burrows |-> <<burrow>>]

\* BurrowTrack.append(time, burrow)
BurrowTrackAppend(t, time, burrow) ==
    [t EXCEPT !.times = Append(@, time), !.burrows = Append(@, burrow)]

\* BurrowTrack.track_end
TrackEnd(t) == t.times[Len(t.times)]

\* BurrowTrack.last
BurrowLast(t) == t.burrows[Len(t.burrows)]

\* the indices of the tracks that are active at frame f for the interval
\* given and whose last burrow intersects burrow, ascending
RECURSIVE ActiveIntersecting(_, _, _, _, _)
ActiveIntersecting(trks, burrow, f, time_interval, k) ==
    IF k > Len(trks) THEN <<>>
    ELSE (IF TrackEnd(trks[k]) >= f - time_interval
             /\ Intersects(BurrowLast(trks[k]), burrow)
          THEN <<k>> ELSE <<>>)
         \o ActiveIntersecting(trks, burrow, f, time_interval, k + 1)

----------------------------------------------------------------------------
(* FirstPass.find_burrows *)

\* ndimage.measurements.label(potential_burrows): the regions of the mask,
\* connected, apart from each other, labelled in the order of the scan
RegionLists ==
    { r \in UNION { [1..n -> Intervals] : n \in 0..MaxRegions } :
        \A i, j \in 1..Len(r) :
            i < j => \A x \in r[i], y \in r[j] : x + 1 < y }

\* What extraction and refinement make of a region:
\*   extract: get_burrow_from_mask returns a burrow (else RuntimeError)
\*   long:    the burrow is long and thin, so refine_long_burrow is called
\*   refine:  the refinement returns the burrow it was given ("same"), None
\*            ("none") or another burrow ("new") covering cells
\*   valid:   is_valid of the burrow the refinement returns
Outcomes1 ==
    { [extract |-> FALSE, long |-> FALSE, refine |-> "none", cells |-> {},
       valid |-> FALSE] }
    \cup { [extract |-> TRUE, long |-> l, refine |-> "none", cells |-> {},
            valid |-> FALSE] : l \in BOOLEAN }
    \cup { [extract |-> TRUE, long |-> l, refine |-> "same", cells |-> {},
            valid |-> v] : l \in BOOLEAN, v \in BOOLEAN }
    \cup { [extract |-> TRUE, long |-> l, refine |-> "new", cells |-> c,
            valid |-> v] : l \in BOOLEAN, c \in Intervals, v \in BOOLEAN }

\* a variant that takes tracks of any age for active
MatchTrack1AnyAge(trks, burrow, f) ==
    LET ids == ActiveIntersecting(trks, burrow, f, f, 1)
    IN  IF ids = <<>> THEN 0 ELSE Head(ids)

\* the first active track whose last burrow intersects the burrow, 0 for None
MatchTrack1(trks, burrow, f) ==
    LET ids == ActiveIntersecting(trks, burrow, f, AdaptationInterval, 1)
    IN  IF ids = <<>> THEN 0 ELSE Head(ids)

\* the cells a refined burrow can cover: refine_long_burrow scans around
\* the burrow; refine_bulky_burrow segments the dilated mask of the burrow
\* and, if given, of the previous burrow of the track
RefineReach(burrow, long, trks, track_id) ==
    IF long \/ track_id = 0
    THEN Buffer(burrow.cells, 1)
    ELSE Buffer(burrow.cells \cup BurrowLast(trks[track_id]).cells, 1)

\* the outcome o can happen for the region
Possible1(trks, region, f, o) ==
    (o.extract /\ o.refine = "new") =>
        LET burrow == [cells |-> region]
        IN  o.cells \subseteq
                RefineReach(burrow, o.long, trks, MatchTrack1(trks, burrow, f))

\* a variant in which the failure of an extraction loses the burrow tracks
ExtractFailedLosesTracks(trks, base) ==
    [tracks |-> <<>>, call |-> [base EXCEPT !.kind = "failed"]]

\* except RuntimeError: continue
ExtractFailed(trks, base) ==
    [tracks |-> trks, call |-> [base EXCEPT !.kind = "failed"]]

\* one iteration of the loop over the labelled regions; get_burrow_from_mask
\* returns a burrow or raises RuntimeError (GetBurrowFromMask)
FindBurrowsRegion(trks, region, f, o) ==
    LET base == [NoBurrowCall EXCEPT !.frame = f, !.before = trks]
    IN  IF ~o.extract
        THEN ExtractFailed(trks, base)
        ELSE
        LET burrow0 == [cells |-> region]
            track_id == MatchTrack1(trks, burrow0, f)
            burrow == CASE o.refine = "same" -> burrow0
                        [] o.refine = "none" -> NoBurrow
                        [] OTHER -> [cells |-> o.cells]
            c == [base EXCEPT !.cand = region,
                              !.track_ids = IF track_id = 0 THEN <<>> ELSE <<track_id>>,
                              !.burrow = burrow,
                              !.valid = (burrow # NoBurrow /\ o.valid)]
        IN  IF burrow # NoBurrow /\ o.valid
            THEN IF track_id # 0
                 THEN [tracks |-> [trks EXCEPT ![track_id] =
                                      BurrowTrackAppend(@, f, burrow)],
                       call |-> [c EXCEPT !.kind = "append", !.target = track_id]]
                 ELSE [tracks |-> Append(trks, BurrowTrack(f, burrow)),
                       call |-> [c EXCEPT !.kind = "new"]]
            ELSE [tracks |-> trks, call |-> [c EXCEPT !.kind = "dropped"]]

InitBurrows1 ==
    /\ engine = "burrows1"
    /\ pc = "iterating"
    /\ step = "idle"
    /\ frame_id = FrameOffset
    /\ ObjInit
    /\ BurInit
    /\ FnInit

\* _iterate_over_video takes the next frame; with burrows/enabled_pass1
\* find_burrows labels the regions of the mask of potential burrows
\* (every frame is a multiple of burrows/adaptation_interval here)
FrameBurrows1 ==
    /\ engine = "burrows1"
    /\ pc = "iterating"
    /\ step = "idle"
    /\ frame_id < FrameOffset + MaxBurrowFrames
    /\ frame_id' = frame_id + 1
    /\ IF (frame_id + 1) % AdaptationInterval = 0
       THEN \E r \in RegionLists : todo' = r
       ELSE todo' = <<>>
    /\ step' = IF todo' = <<>> THEN "idle" ELSE "regions"
    /\ UNCHANGED <<params, fnvars, engine, pc, objvars, burrow_tracks, bcall, burrows,
                   mouse_trail, ground>>

\* the body of the loop of find_burrows for the next labelled region
BurrowRegion1 ==
    /\ engine = "burrows1"
    /\ pc = "iterating"
    /\ step = "regions"
    /\ \E o \in Outcomes1 :
          /\ Possible1(burrow_tracks, Head(todo), frame_id, o)
          /\ LET r == FindBurrowsRegion(burrow_tracks, Head(todo), frame_id, o)
             IN  /\ burrow_tracks' = r.tracks
                 /\ bcall' = r.call
    /\ todo' = Tail(todo)
    /\ step' = IF todo' = <<>> THEN "idle" ELSE "regions"
    /\ UNCHANGED <<params, fnvars, engine, pc, frame_id, objvars, burrows, mouse_trail, ground>>

\* the iteration of pass 1 ends (video exhausted or interrupted between two
\* frames); the burrow tracks are in the result already
EndProcessB1 ==
    /\ engine = "burrows1"
    /\ pc = "iterating"
    /\ step = "idle"
    /\ pc' = "done"
    /\ UNCHANGED <<params, fnvars, engine, frame_id, step, objvars, burvars>>

NextBurrows1 == FrameBurrows1 \/ BurrowRegion1 \/ EndProcessB1

SpecBurrows1 == InitBurrows1 /\ [][NextBurrows1]_vars

----------------------------------------------------------------------------
(* ThirdPass: burrows from the mouse trail *)

\* Burrow.merge(other): the union of the polygons, the longer centerline
Merge(b, other) ==
    [cells |-> b.cells \cup other.cells,
     length |-> IF other.length > b.length THEN other.length ELSE b.length]

\* the length of the line through the cells of a trail
TrailLength(trail) == Cardinality(trail) - 1

\* the mouse trails: the mouse enters at the left end of the strip, at the
\* right end, or has gone through all of it
Trails == {{1}, {3}, Cells}

\* the regions under the ground line, which moves over the frames
Grounds == {Cells, Cells \ {1}}

\* a variant of the list track_ids that takes tracks of any age for active
TrackIds3AnyAge(trks, burrow, f) ==
    ActiveIntersecting(trks, burrow, f, f + 1, 1)

\* ThirdPass.active_burrows(time_interval) restricted to the tracks whose
\* last burrow intersects burrow: the list track_ids of store_burrows
TrackIds3(trks, burrow, f) ==
    ActiveIntersecting(trks, burrow, f, AdaptationInterval, 1)

\* the loop over track_ids of store_burrows: the burrow is merged with the
\* last burrow of each track and the track of the longest one is kept
RECURSIVE MergeLoop(_, _, _, _, _, _)
MergeLoop(trks, track_ids, k, burrow, track_longest, length_max) ==
    IF k > Len(track_ids)
    THEN [burrow |-> burrow, track_longest |-> track_longest]
    ELSE LET burrow_last == BurrowLast(trks[track_ids[k]])
             longer == burrow_last.length > length_max
         IN  MergeLoop(trks, track_ids, k + 1, Merge(burrow, burrow_last),
                       IF longer THEN track_ids[k] ELSE track_longest,
                       IF longer THEN burrow_last.length ELSE length_max)

\* What becomes of a burrow in the body of the loop of store_burrows:
\*   skip:   the intersection with the ground or the outline raises
\*   length: the length of the centerline after its adjustment
\*   valid:  is_valid of the burrow (the length of a burrow that is not
\*           valid is not looked at again)
Outcomes3 ==
    { [skip |-> TRUE, length |-> 0, valid |-> FALSE] }
    \cup { [skip |-> FALSE, length |-> 0, valid |-> FALSE] }
    \cup { [skip |-> FALSE, length |-> l, valid |-> TRUE] :
             l \in 0..MaxLength }

\* one iteration of the loop of store_burrows for self.burrows[idx];
\* crash: burrow_tracks[None] raises TypeError
StoreBurrow(trks, bs, idx, gr, f, o) ==
    LET track_ids == TrackIds3(trks, bs[idx], f)
        m == IF Len(track_ids) > 1
             THEN MergeLoop(trks, track_ids, 1, bs[idx], 0, 0)
             ELSE [burrow |-> bs[idx], track_longest |-> 0]
        polygon == m.burrow.cells \cap gr
        burrow == [cells |-> polygon, length |-> o.length]
        c == [NoBurrowCall EXCEPT !.frame = f, !.before = trks,
                                  !.cand = bs[idx].cells,
                                  !.track_ids = track_ids]
    IN  IF polygon = {} \/ o.skip
        THEN [tracks |-> trks, burrows |-> [bs EXCEPT ![idx] = m.burrow],
              crash |-> FALSE, call |-> [c EXCEPT !.kind = "skipped"]]
        ELSE
        LET d == [c EXCEPT !.burrow = burrow, !.valid = o.valid]
            bs2 == [bs EXCEPT ![idx] = burrow]
        IN  IF ~o.valid
            THEN [tracks |-> trks, burrows |-> bs2, crash |-> FALSE,
                  call |-> [d EXCEPT !.kind = "dropped"]]
            ELSE IF Len(track_ids) > 1
            THEN IF m.track_longest = 0
                 THEN [tracks |-> trks, burrows |-> bs2, crash |-> TRUE,
                       call |-> [d EXCEPT !.kind = "crash"]]
                 ELSE [tracks |-> [trks EXCEPT ![m.track_longest] =
                                      BurrowTrackAppend(@, f, burrow)],
                       burrows |-> bs2, crash |-> FALSE,
                       call |-> [d EXCEPT !.kind = "append",
                                          !.target = m.track_longest]]
            ELSE IF Len(track_ids) = 1
            THEN [tracks |-> [trks EXCEPT ![track_ids[1]] =
                                 BurrowTrackAppend(@, f, burrow)],
                  burrows |-> bs2, crash |-> FALSE,
                  call |-> [d EXCEPT !.kind = "append", !.target = track_ids[1]]]
            ELSE [tracks |-> Append(trks, BurrowTrack(f, burrow)),
                  burrows |-> bs2, crash |-> FALSE,
                  call |-> [d EXCEPT !.kind = "new"]]

\* [b.copy() for _, b in self.active_burrows(time_interval=0)]
RECURSIVE CurrentBurrows(_, _, _)
CurrentBurrows(trks, f, k) ==
    IF k > Len(trks) THEN <<>>
    ELSE (IF TrackEnd(trks[k]) >= f THEN <<BurrowLast(trks[k])>> ELSE <<>>)
         \o CurrentBurrows(trks, f, k + 1)

\* a variant of burrows_with_mouse that stops at the first burrow with the
\* mouse, so that no other burrow is merged into it
RECURSIVE BurrowsWithMouseFirstOnly(_, _, _)
BurrowsWithMouseFirstOnly(bs, trail, k) ==
    IF k > Len(bs) THEN <<>>
    ELSE IF Distance(bs[k].cells, trail) < BurrowWidth THEN <<k>>
    ELSE BurrowsWithMouseFirstOnly(bs, trail, k + 1)

\* burrows_with_mouse of find_burrows
RECURSIVE BurrowsWithMouse(_, _, _)
BurrowsWithMouse(bs, trail, k) ==
    IF k > Len(bs) THEN <<>>
    ELSE (IF Distance(bs[k].cells, trail) < BurrowWidth THEN <<k>> ELSE <<>>)
         \o BurrowsWithMouse(bs, trail, k + 1)

\* self.video.size: the cells 0..VideoWidth of the strip are in the video
VideoWidth == 4
VideoCells == 0..VideoWidth

\* cage_interior_rectangle: the video without its border
CageInterior == 1..(VideoWidth - 1)

\* mouse_trail.buffer(trail_width) in the plane of the video
BufferVideo(c, r) == {x \in VideoCells : \E y \in c : Abs(x - y) <= r}

\* a variant that takes the trail for the centerline also if it is only as
\* long as the burrow
ExtendBurrowLongerOrEqual(burrow, trail, trail_width) ==
    LET longer == TrailLength(trail) >= burrow.length
    IN  [cells |-> (burrow.cells \cup BufferVideo(trail, trail_width))
                       \cap CageInterior,
         centerline |-> IF longer THEN trail ELSE burrow.centerline,
         length |-> IF longer THEN TrailLength(trail) ELSE burrow.length]

\* the body of extend_burrow_by_mouse_trail for trail_width =
\* burrows/width_min; the length of a burrow is that of its centerline
ExtendBurrow(burrow, trail, trail_width) ==
    LET longer == TrailLength(trail) > burrow.length
    IN  [cells |-> (burrow.cells \cup BufferVideo(trail, trail_width))
                       \cap CageInterior,
         centerline |-> IF longer THEN trail ELSE burrow.centerline,
         length |-> IF longer THEN TrailLength(trail) ELSE burrow.length]

\* extend_burrow_by_mouse_trail on the burrows of self.burrows
ExtendBurrowByMouseTrail(burrow, trail) ==
    LET b == ExtendBurrow([cells |-> burrow.cells, length |-> burrow.length,
                           centerline |-> {}], trail, BurrowWidthMin)
    IN  [cells |-> b.cells, length |-> b.length]

\* the loop over reversed(burrows_with_mouse[1:]): the burrow with index
\* first takes in the other burrows with the mouse, which are deleted
RECURSIVE MergeOthers(_, _, _, _)
MergeOthers(bs, first, others, k) ==
    IF k = 0 THEN bs
    ELSE MergeOthers(
             ListDelete([bs EXCEPT ![first] = Merge(@, bs[others[k]])],
                        others[k]),
             first, others, k - 1)

\* find_burrows after store_burrows
TrailBurrows(bs, trail) ==
    IF trail = NoTrail THEN bs
    ELSE LET with == BurrowsWithMouse(bs, trail, 1)
         IN  IF with # <<>>
             THEN MergeOthers(
                      [bs EXCEPT ![Head(with)] =
                           ExtendBurrowByMouseTrail(@, trail)],
                      Head(with), Tail(with), Len(with) - 1)
             ELSE Append(bs, [cells |-> Buffer(trail, BurrowWidthMin),
                              length |-> TrailLength(trail)])

InitPass3 ==
    /\ engine = "pass3"
    /\ pc = "iterating"
    /\ step = "idle"
    /\ frame_id = -1
    /\ ObjInit
    /\ BurInit
    /\ FnInit

\* _iterate_over_video takes the next frame and its ground profile;
\* find_burrows enters store_burrows if the frame is due
P3Frame ==
    /\ engine = "pass3"
    /\ pc = "iterating"
    /\ step = "idle"
    /\ frame_id < FrameOffset + MaxFrames3 - 1
    /\ frame_id' = IF frame_id = -1 THEN FrameOffset ELSE frame_id + 1
    /\ \E g \in Grounds : ground' = g
    /\ IF frame_id' % AdaptationInterval = 0
       THEN IF burrows = <<>>
            THEN /\ burrows' = CurrentBurrows(burrow_tracks, frame_id', 1)
                 /\ todo' = <<>>
                 /\ step' = "trail"
            ELSE /\ burrows' = burrows
                 /\ todo' = [k \in 1..Len(burrows) |-> k]
                 /\ step' = "store"
       ELSE /\ burrows' = burrows
            /\ todo' = <<>>
            /\ step' = "trail"
    /\ UNCHANGED <<params, fnvars, engine, pc, objvars, burrow_tracks, bcall, mouse_trail>>

\* the body of the loop of store_burrows for the next burrow; after the
\* last one self.burrows is replaced by the burrows stored in this frame
P3Store ==
    /\ engine = "pass3"
    /\ pc = "iterating"
    /\ step = "store"
    /\ \E o \in Outcomes3 :
          LET r == StoreBurrow(burrow_tracks, burrows, Head(todo), ground,
                               frame_id, o)
          IN  /\ burrow_tracks' = r.tracks
              /\ bcall' = r.call
              /\ todo' = Tail(todo)
              /\ IF r.crash
                 THEN /\ pc' = "crashed"
                      /\ step' = "idle"
                      /\ burrows' = r.burrows
                 ELSE /\ pc' = pc
                      /\ IF Tail(todo) = <<>>
                         THEN /\ burrows' = CurrentBurrows(r.tracks, frame_id, 1)
                              /\ step' = "trail"
                         ELSE /\ burrows' = r.burrows
                              /\ step' = "store"
    /\ UNCHANGED <<params, fnvars, engine, frame_id, objvars, mouse_trail, ground>>

\* the rest of the frame: find_burrows extends, merges or creates the burrow
\* of the mouse trail, then classify_mouse_state resets or extends the trail
\* with the mouse position of pass 2
P3Trail ==
    /\ engine = "pass3"
    /\ pc = "iterating"
    /\ step = "trail"
    /\ burrows' = TrailBurrows(burrows, mouse_trail)
    /\ \E t \in {NoTrail} \cup Trails : mouse_trail' = t
    /\ step' = "idle"
    /\ UNCHANGED <<params, fnvars, engine, pc, frame_id, objvars, burrow_tracks, todo, bcall,
                   ground>>

\* the iteration of pass 3 ends (video exhausted or interrupted between two
\* frames); process() writes the result and leaves self.burrows as it is
EndProcess3 ==
    /\ engine = "pass3"
    /\ pc = "iterating"
    /\ step = "idle"
    /\ pc' = "done"
    /\ UNCHANGED <<params, fnvars, engine, frame_id, step, objvars, burvars>>

NextPass3 == P3Frame \/ P3Store \/ P3Trail \/ EndProcess3

SpecPass3 == InitPass3 /\ [][NextPass3]_vars

----------------------------------------------------------------------------
(* The passes together *)

Init == InitObjects \/ InitBurrows1 \/ InitPass3

Next == NextObjects \/ NextBurrows1 \/ NextPass3

Spec == Init /\ [][Next]_vars

----------------------------------------------------------------------------
(* FirstPass.get_burrow_from_mask *)

\* burrows/area_min
BurrowAreaMin == 2

\* largest area of a contour of a mask
MaxContourArea == 3

\* number of contours cv2.findContours returns at most
MaxContours == 2

\* What simplification and regularization make of the largest contour:
\* a contour Burrow accepts ("simple"), a contour Burrow rejects with
\* ValueError ("rejected") or no point at all ("empty")
ContourShapes == {"simple", "rejected", "empty"}

\* a mask: the areas of its contours in the order of cv2.findContours and
\* the shape of the largest one
Masks ==
    [areas : UNION { [1..n -> 0..MaxContourArea] : n \in 0..MaxContours },
     shape : ContourShapes]

\* raise RuntimeError(msg)
RaiseRuntimeError(msg) == [kind |-> "RuntimeError", msg |-> msg, area |-> 0]

\* np.argmax: the first index of the greatest entry
ArgMax(a) ==
    CHOOSE i \in 1..Len(a) :
        /\ \A j \in 1..Len(a) : a[j] <= a[i]
        /\ \A j \in 1..(i - 1) : a[j] < a[i]

GetBurrowFromMask(mask) ==
    LET contour_areas == mask.areas
    IN  IF contour_areas = <<>>
        THEN RaiseRuntimeError("Could not find any contour")
        ELSE
        LET contour_id == ArgMax(contour_areas)
        IN  IF contour_areas[contour_id] < BurrowAreaMin
            THEN RaiseRuntimeError("Burrow is too small")
            ELSE CASE mask.shape = "simple" ->
                        [kind |-> "Burrow", msg |-> "",
                         area |-> contour_areas[contour_id]]
                   [] mask.shape = "rejected" ->
                        RaiseRuntimeError("err.message")
                   [] OTHER ->
                        RaiseRuntimeError("Contour is not a simple polygon")

InitMask ==
    /\ engine = "mask"
    /\ pc = "iterating"
    /\ step = "idle"
    /\ frame_id = FrameOffset
    /\ ObjInit
    /\ BurInit
    /\ arg \in Masks
    /\ ret = NoRet
    /\ params = DefaultParams

\* get_burrow_from_mask is called with the mask
ExtractBurrow ==
    /\ engine = "mask"
    /\ pc = "iterating"
    /\ ret' = GetBurrowFromMask(arg)
    /\ pc' = "done"
    /\ UNCHANGED <<params, engine, frame_id, step, objvars, burvars, arg>>

SpecMask == InitMask /\ [][ExtractBurrow]_vars

----------------------------------------------------------------------------
(* FirstPass.refine_bulky_burrow and FirstPass.refine_long_burrow *)

\* number of points of a centerline at most
MaxPoints == 5

\* the burrows get_burrow_from_mask can return
ExtractedBurrows ==
    { [kind |-> "Burrow", msg |-> "", area |-> a] :
        a \in BurrowAreaMin..MaxContourArea }

\* return None
ReturnNone == [kind |-> "None", msg |-> "", area |-> 0]

\* What happens inside refine_bulky_burrow:
\*   grabcut: cv2.grabCut raises or segments the image
\*   mask:    the mask of the foreground that is left
BulkyArgs ==
    { [fn |-> "bulky", burrow |-> b, grabcut |-> "raises",
       mask |-> [areas |-> <<>>, shape |-> "empty"]] : b \in ExtractedBurrows }
    \cup { [fn |-> "bulky", burrow |-> b, grabcut |-> "segments", mask |-> k] :
             b \in ExtractedBurrows, k \in Masks }

RefineBulkyBurrow(a) ==
    IF a.grabcut = "raises"
    THEN a.burrow
    ELSE LET burrow == GetBurrowFromMask(a.mask)
         IN  IF burrow.kind = "RuntimeError" THEN ReturnNone ELSE burrow

\* What happens inside refine_long_burrow:
\*   centerline:     the number of points of burrow.centerline
\*   centerline_new: the number of points of the refined centerline
\*   outline:        what regularize_contour_points and Burrow make of the
\*                   refined outline
LongArgs ==
    { [fn |-> "long", burrow |-> b, centerline |-> n, centerline_new |-> k,
       outline |-> o] :
        b \in ExtractedBurrows, n \in 1..MaxPoints, k \in 0..MaxPoints,
        o \in ContourShapes }

\* a variant that refines burrows with short centerlines, too
RefineLongBurrowAlways(a) ==
    IF a.centerline_new < 2 THEN ReturnNone
    ELSE IF a.outline = "empty" THEN ReturnNone
    ELSE IF a.outline = "rejected" THEN ReturnNone
    ELSE [kind |-> "Burrow", msg |-> "refined", area |-> a.burrow.area]

RefineLongBurrow(a) ==
    IF a.centerline < 4 THEN a.burrow
    ELSE IF a.centerline_new < 2 THEN ReturnNone
    ELSE IF a.outline = "empty" THEN ReturnNone
    ELSE IF a.outline = "rejected" THEN ReturnNone
    ELSE [kind |-> "Burrow", msg |-> "refined", area |-> a.burrow.area]

InitRefine ==
    /\ engine = "refine"
    /\ pc = "iterating"
    /\ step = "idle"
    /\ frame_id = FrameOffset
    /\ ObjInit
    /\ BurInit
    /\ arg \in BulkyArgs \cup LongArgs
    /\ ret = NoRet
    /\ params = DefaultParams

\* refine_bulky_burrow is called with the burrow
RefineBulky ==
    /\ engine = "refine"
    /\ pc = "iterating"
    /\ arg.fn = "bulky"
    /\ ret' = RefineBulkyBurrow(arg)
    /\ pc' = "done"
    /\ UNCHANGED <<params, engine, frame_id, step, objvars, burvars, arg>>

\* refine_long_burrow is called with the burrow
RefineLong ==
    /\ engine = "refine"
    /\ pc = "iterating"
    /\ arg.fn = "long"
    /\ ret' = RefineLongBurrow(arg)
    /\ pc' = "done"
    /\ UNCHANGED <<params, engine, frame_id, step, objvars, burvars, arg>>

NextRefine == RefineBulky \/ RefineLong

SpecRefine == InitRefine /\ [][NextRefine]_vars

----------------------------------------------------------------------------
(* ThirdPass.extend_burrow_by_mouse_trail *)

\* largest value of burrows/width_min
MaxTrailWidth == 1

\* the centerline a burrow has before it is extended
OldCenterline == {0}

\* the calls find_burrows makes: the trail is closer to the burrow than
\* burrows/width
ExtendArgs ==
    { a \in [burrow : [cells : Intervals, length : 0..MaxLength,
                       centerline : {OldCenterline}],
             trail : Intervals,
             trail_width : 0..MaxTrailWidth] :
        Distance(a.burrow.cells, a.trail) < BurrowWidth }

InitExtend ==
    /\ engine = "extend"
    /\ pc = "iterating"
    /\ step = "idle"
    /\ frame_id = FrameOffset
    /\ ObjInit
    /\ BurInit
    /\ arg \in ExtendArgs
    /\ ret = NoRet
    /\ params = DefaultParams

\* extend_burrow_by_mouse_trail is called with the burrow
ExtendByTrail ==
    /\ engine = "extend"
    /\ pc = "iterating"
    /\ ret' = ExtendBurrow(arg.burrow, arg.trail, arg.trail_width)
    /\ pc' = "done"
    /\ UNCHANGED <<params, engine, frame_id, step, objvars, burvars, arg>>

SpecExtend == InitExtend /\ [][ExtendByTrail]_vars

----------------------------------------------------------------------------
(* FirstPass._handle_object_tracks with one observation per frame *)

\* number of frames with one observation
MaxSingleFrames == 3

\* a tolerance that has grown without bound: larger than every distance and
\* every area of these frames
Boundless == 1000 * Milli

\* the observations of the frames: near each other or far, of like or
\* unlike area
SingleContours ==
    { [pos |-> <<10, 10>>, area |-> 100], [pos |-> <<11, 11>>, area |-> 102],
      [pos |-> <<13, 14>>, area |-> 400], [pos |-> <<30, 10>>, area |-> 100],
      [pos |-> <<10, 10>>, area |-> 400] }

\* mouse/speed_max = 5 or boundless, mouse/max_rel_area_change = 0.5 or
\* boundless
SingleParams ==
    { [area_max |-> 1000, area_min |-> 50, speed_max |-> v,
       max_rel_area_num |-> r[1], max_rel_area_den |-> r[2],
       alpha_num |-> AlphaNum, alpha_den |-> AlphaDen] :
        v \in {5, Boundless}, r \in {<<1, 2>>, <<Boundless, 1>>} }

InitSingle ==
    /\ engine = "single"
    /\ pc = "iterating"
    /\ step = "idle"
    /\ frame_id = FrameOffset
    /\ ObjInit
    /\ BurInit
    /\ arg = NoArg
    /\ ret = NoRet
    /\ params \in SingleParams

\* the next frame has one contour, which _handle_object_tracks gets
SingleFrame ==
    /\ engine = "single"
    /\ pc = "iterating"
    /\ frame_id < FrameOffset + MaxSingleFrames
    /\ \E c \in SingleContours :
          LET r == HandleObjectTracks(ObjState, <<c>>, frame_id + 1)
          IN  /\ frame_id' = frame_id + 1
              /\ tracks' = r.st.tracks
              /\ result_tracks' = r.st.result
              /\ next_id' = r.st.next_id
              /\ call' = r.call
    /\ UNCHANGED <<params, fnvars, engine, pc, step, burvars>>

SpecSingle == InitSingle /\ [][SingleFrame]_vars

----------------------------------------------------------------------------
(* Properties of the object assignment engine *)

\* the call recorded in call went through the greedy assignment
Matched == call.branch = "match"

BoundF == {call.binds[k][1] : k \in 1..Len(call.binds)}
BoundE == {call.binds[k][2] : k \in 1..Len(call.binds)}
IdsOf(s) == {s[k].id : k \in 1..Len(s)}
Min2(a, b) == IF a < b THEN a ELSE b

\* the entries of a sequence of tracks that are moving
MovingIdx(s) == {k \in 1..Len(s) : IsMoving(s[k])}

\* C1: in one call of _handle_object_tracks no observation index i_f and no
\* track index i_e is selected in two iterations of the greedy loop.
C1_NoDoubleBinding ==
    Matched =>
        \A a, b \in 1..Len(call.binds) :
            a # b => /\ call.binds[a][1] # call.binds[b][1]
                     /\ call.binds[a][2] # call.binds[b][2]

C1_Witness == Matched /\ Len(call.binds) = 2

\* C3: after a call with observations and active tracks, every previously
\* active track is either continued (one append at the current frame, still
\* active) or moved exactly once to the result and no longer active; every
\* unmatched observation starts exactly one new track holding only that
\* observation; and len(self.tracks) == len(objects_found).
C3_ContinueEndStart ==
    Matched =>
        LET n_rb == Len(call.result_before)
            moved == SubSeq(call.result_after, n_rb + 1, Len(call.result_after))
        IN  /\ Len(call.after) = Len(call.objects_found)
            /\ SubSeq(call.result_after, 1, n_rb) = call.result_before
            /\ \A j \in 1..Len(call.before) :
                  LET t == call.before[j]
                      act == {k \in 1..Len(call.after) : call.after[k].id = t.id}
                      fin == {k \in 1..Len(moved) : moved[k].id = t.id}
                  IN  \/ /\ Cardinality(act) = 1
                         /\ fin = {}
                         /\ \E i \in 1..Len(call.objects_found) :
                               \A k \in act :
                                   call.after[k] =
                                       TrackAppend(t, frame_id, call.objects_found[i])
                      \/ /\ act = {}
                         /\ Cardinality(fin) = 1
                         /\ \A k \in fin : moved[k] = t
            /\ \A i \in 1..Len(call.objects_found) :
                  i \notin BoundF =>
                      Cardinality({k \in 1..Len(call.after) :
                          /\ call.after[k].id \notin IdsOf(call.before)
                          /\ call.after[k].times = <<frame_id>>
                          /\ call.after[k].objects = <<call.objects_found[i]>>}) = 1

C3_Witness ==
    /\ Matched
    /\ Len(call.binds) >= 1
    /\ Len(call.idx_e) >= 1
    /\ Len(call.idx_f) >= 1

\* C4: every iteration binds a pair whose score is minimal among the pairs
\* of observations and tracks not bound before, and only if that score is
\* <= 1; there are at most min(N, M) bindings; when the loop has ended every
\* pair of an unbound observation and an unbound track has a score > 1.
C4_GreedyMinimal ==
    Matched =>
        LET n_f == Len(call.objects_found)
            n_e == Len(call.before)
        IN  /\ Len(call.binds) <= Min2(n_f, n_e)
            /\ \A k \in 1..Len(call.binds) :
                  LET b == call.binds[k]
                      doneF == {call.binds[m][1] : m \in 1..(k-1)}
                      doneE == {call.binds[m][2] : m \in 1..(k-1)}
                  IN  /\ b[3] <= Milli
                      /\ b[3] = call.score[<<b[1], b[2]>>]
                      /\ b[1] \notin doneF
                      /\ b[2] \notin doneE
                      /\ \A i \in (1..n_f) \ doneF, j \in (1..n_e) \ doneE :
                            call.score[<<i, j>>] >= b[3]
            /\ \A i \in (1..n_f) \ BoundF, j \in (1..n_e) \ BoundE :
                  call.score[<<i, j>>] > Milli
            /\ Range(call.idx_f) = (1..n_f) \ BoundF
            /\ Range(call.idx_e) = (1..n_e) \ BoundE

C4_Witness ==
    /\ Matched
    /\ Len(call.binds) >= 1
    /\ \E i \in (1..Len(call.objects_found)) \ BoundF,
          j \in (1..Len(call.before)) \ BoundE :
              call.score[<<i, j>>] > Milli /\ call.score[<<i, j>>] < Inf

\* a contour of the frame is usable: 0 < area < mouse/area_max
Usable(c) == 0 < c.area /\ c.area < AreaMax

\* C5: a frame without usable observation (no contour at all, or none with
\* 0 < area < mouse/area_max) moves all active tracks to the result and
\* empties self.tracks; a frame with observations and no active track starts
\* one track per observation, holding that observation at the current frame,
\* and finalizes nothing.
C5_SpecialCases ==
    /\ (call.branch # "none" /\ \A k \in 1..Len(call.contours) : ~Usable(call.contours[k]))
           => /\ call.branch \in {"no_features", "no_objects"}
              /\ call.after = <<>>
              /\ call.result_after = call.result_before \o call.before
              /\ pc = "iterating" => (tracks = <<>> /\ result_tracks = call.result_after)
    /\ ((\E k \in 1..Len(call.contours) : Usable(call.contours[k]))
           /\ call.before = <<>>)
           => /\ call.branch = "no_tracks"
              /\ call.result_after = call.result_before
              /\ Len(call.after) = Len(call.objects_found)
              /\ \A i \in 1..Len(call.after) :
                    /\ call.after[i].times = <<frame_id>>
                    /\ call.after[i].objects = <<call.objects_found[i]>>
                    /\ \A k \in 1..Len(call.after) :
                          k # i => call.after[k].id # call.after[i].id
              /\ pc = "iterating" =>
                    (tracks = call.after /\ result_tracks = call.result_before)

C5_Witness ==
    /\ call.branch = "no_objects"
    /\ Len(call.contours) >= 1
    /\ Len(call.before) >= 2

\* C6 (as claimed): when more than mouse/max_count tracks are moving after
\* the assignment, find_objects keeps exactly the max_count moving tracks
\* with the largest last.size and moves every other track to the result.
C6_KeepsLargest ==
    (pc = "iterating" /\ call.branch \in {"match", "no_tracks"}
        /\ Cardinality(MovingIdx(call.after)) > MouseMaxCount)
    => /\ Len(tracks) = MouseMaxCount
       /\ \A k \in 1..Len(tracks) :
             /\ \E m \in MovingIdx(call.after) : call.after[m] = tracks[k]
             /\ \A m \in MovingIdx(call.after) :
                   call.after[m].id \notin IdsOf(tracks)
                       => Last(tracks[k]).size >= Last(call.after[m]).size
       /\ \A m \in 1..Len(call.after) :
             call.after[m].id \notin IdsOf(tracks)
                 => \E k \in (Len(call.result_after) + 1)..Len(result_tracks) :
                        result_tracks[k] = call.after[m]

\* C7 (as claimed): with at most mouse/max_count moving tracks after the
\* assignment, find_objects finalizes no track and leaves self.tracks as
\* the assignment left it.
C7_NoActionBelowMax ==
    (pc = "iterating" /\ call.branch \in {"match", "no_tracks"}
        /\ Cardinality(MovingIdx(call.after)) <= MouseMaxCount)
    => (tracks = call.after /\ result_tracks = call.result_after)

\* C7 (amended): if no active track is moving after the assignment,
\* find_objects finalizes no track and leaves self.tracks unchanged; if at
\* least one and at most mouse/max_count tracks are moving, exactly the
\* moving tracks stay active and every track that is not moving is moved to
\* the result.
C7_FilterBelowMax ==
    (pc = "iterating" /\ call.branch \in {"match", "no_tracks"})
    => LET mv == MovingIdx(call.after)
           all == 1..Len(call.after)
       IN  /\ mv = {} => (tracks = call.after /\ result_tracks = call.result_after)
           /\ (mv # {} /\ Cardinality(mv) <= MouseMaxCount)
                 => /\ tracks = SelectIdx(call.after, mv, 1)
                    /\ result_tracks =
                          call.result_after \o SelectIdx(call.after, all \ mv, 1)

C7_Witness ==
    /\ pc = "iterating"
    /\ call.branch = "match"
    /\ Cardinality(MovingIdx(call.after)) = 1
    /\ Len(call.after) = 2
    /\ Len(tracks) = 1

----------------------------------------------------------------------------
(* scripts/functions/underground_movie.py: get_video_parts *)

\* last frame index of a list of bouts at most
MaxTime == 7

\* number of bouts at most
MaxBouts == 3

\* largest output/video/underground_video_length of the runs
MaxVideoLength == 3

\* the lists of bouts contiguous_true_regions returns: pairs (start, end)
\* with start < end, in increasing order, separated by at least one frame
BoutLists ==
    { b \in UNION { [1..n -> (0..MaxTime) \X (0..MaxTime)] : n \in 0..MaxBouts } :
        /\ \A i \in DOMAIN b : b[i][1] < b[i][2]
        /\ \A i \in DOMAIN b : i > 1 => b[i - 1][2] < b[i][1] }

\* a variant of the slice that takes in the bout after it
SliceInclusive(start, stop) == [start |-> start, stop |-> stop + 1]

\* slice(start, stop)
Slice(start, stop) == [start |-> start, stop |-> stop]

\* the loop of get_video_parts from the bout with index bout_id (counted
\* from 0) on, and the slice added after the loop
RECURSIVE GetVideoPartsLoop(_, _, _, _, _, _)
GetVideoPartsLoop(bouts, video_length, bout_id, video_duration, bout_first, result) ==
    IF bout_id >= Len(bouts)
    THEN IF bout_first < Len(bouts)
         THEN Append(result, Slice(bout_first, Len(bouts)))
         ELSE result
    ELSE LET bout_duration == bouts[bout_id + 1][2] - bouts[bout_id + 1][1]
         IN  IF video_duration + bout_duration > video_length
             THEN IF video_duration > 0
                  THEN GetVideoPartsLoop(bouts, video_length, bout_id + 1, 0,
                           bout_id,
                           Append(result, Slice(bout_first, bout_id)))
                  ELSE GetVideoPartsLoop(bouts, video_length, bout_id + 1, 0,
                           bout_id + 1,
                           Append(result, Slice(bout_first, bout_id + 1)))
             ELSE GetVideoPartsLoop(bouts, video_length, bout_id + 1,
                      video_duration + bout_duration, bout_first, result)

get_video_parts(bouts, video_length) ==
    GetVideoPartsLoop(bouts, video_length, 0, 0, 0, <<>>)

\* bouts[slice]
ApplySlice(bouts, slice) ==
    SubSeq(bouts, slice.start + 1, slice.stop)

InitParts ==
    /\ engine = "parts"
    /\ pc = "iterating"
    /\ step = "idle"
    /\ frame_id = FrameOffset
    /\ ObjInit
    /\ BurInit
    /\ arg \in [bouts : BoutLists, video_length : 1..MaxVideoLength]
    /\ ret = NoRet
    /\ params = DefaultParams

\* get_underground_bouts calls get_video_parts with the bouts and the
\* video length
GetVideoParts ==
    /\ engine = "parts"
    /\ pc = "iterating"
    /\ ret' = [kind |-> "parts",
               video_parts |-> get_video_parts(arg.bouts, arg.video_length)]
    /\ pc' = "done"
    /\ UNCHANGED <<params, engine, frame_id, step, objvars, burvars, arg>>

SpecParts == InitParts /\ [][GetVideoParts]_vars

----------------------------------------------------------------------------
(* FirstPass._iterate_over_video: the steps of one frame, and the thread *)
(* of the VideoPreprocessor that prepares the frames                      *)

\* number of frames of the video after the first one
MaxIterFrames == 2

\* frames the preprocessor holds ready at most
MaxQueue == 1

\* largest adaptation interval of the colors and of the ground
MaxInterval == 2

\* largest video/initial_adaptation_frames
MaxAdaptationFrames == 1

\* the object lists and the region lists of the frames of this engine
IterContourLists ==
    { c \in ContourLists :
        Len(c) <= 1 /\ \A i \in DOMAIN c : c[i].pos = <<0, 0>> }
IterRegionLists == { r \in RegionLists : Len(r) <= 1 }
IterOutcomes == { o \in Outcomes1 : o.refine # "new" /\ ~o.long }

\* the steps of the loop body that change the state of the analysis
StepOrder == <<"background", "objects", "ground", "burrows">>

do_analysis(f) == f >= arg.analyze_start
do_colors(f) == f % arg.colors_interval = 0
do_ground(f) == f % arg.ground_interval = 0
do_burrows(f) == f % AdaptationInterval = 0

\* frames the preprocessor has prepared and the loop has not taken
Ready == arg.read - (frame_id - FrameOffset)

\* what follows the update of the background model
AfterBackground(f) == IF do_analysis(f) THEN "objects" ELSE "debug"

\* what follows the ground profile: find_burrows if it is due
AfterGround(f) ==
    IF arg.never_analyzed \/ do_burrows(f) THEN "burrows" ELSE "debug"

\* a variant that takes the burrows before the ground profile
AfterObjectsBurrowsFirst(f) == "burrows"

\* what follows find_objects: the ground profile if it is due
AfterObjects(f) ==
    IF arg.never_analyzed \/ do_ground(f) THEN "ground" ELSE AfterGround(f)

\* the step is added to the steps done for the frame
Done(name) == [ret EXCEPT !.steps = Append(@, name)]

InitIterate ==
    /\ engine = "iterate"
    /\ pc = "iterating"
    /\ step = "idle"
    /\ frame_id = FrameOffset
    /\ ObjInit
    /\ BurInit
    /\ \E a \in 0..MaxAdaptationFrames, c, g \in 1..MaxInterval :
          arg = [never_analyzed |-> TRUE, analyze_start |-> FrameOffset + a,
                 colors_interval |-> c, ground_interval |-> g, read |-> 0]
    /\ ret = [kind |-> "frame", steps |-> <<>>]
    /\ params = DefaultParams

\* the thread of the VideoPreprocessor prepares the next frame of the video
IterPreprocess ==
    /\ engine = "iterate"
    /\ pc = "iterating"
    /\ arg.read < MaxIterFrames
    /\ Ready < MaxQueue
    /\ arg' = [arg EXCEPT !.read = @ + 1]
    /\ UNCHANGED <<params, engine, pc, frame_id, step, objvars, burvars, ret>>

\* the for loop takes the next frame from the iterator
IterTakeFrame ==
    /\ engine = "iterate"
    /\ pc = "iterating"
    /\ step = "idle"
    /\ Ready > 0
    /\ frame_id' = frame_id + 1
    /\ ret' = [ret EXCEPT !.steps = <<>>]
    /\ step' = IF do_analysis(frame_id + 1)
                  /\ (arg.never_analyzed \/ do_colors(frame_id + 1))
               THEN "colors" ELSE "background"
    /\ UNCHANGED <<params, engine, pc, objvars, burvars, arg>>

\* find_color_estimates
IterColors ==
    /\ engine = "iterate"
    /\ pc = "iterating"
    /\ step = "colors"
    /\ arg' = [arg EXCEPT !.never_analyzed = FALSE]
    /\ step' = "background"
    /\ UNCHANGED <<params, engine, pc, frame_id, objvars, burvars, ret>>

\* self.background.update(frame, self.tracks)
IterBackground ==
    /\ engine = "iterate"
    /\ pc = "iterating"
    /\ step = "background"
    /\ ret' = Done("background")
    /\ step' = AfterBackground(frame_id)
    /\ UNCHANGED <<params, engine, pc, frame_id, objvars, burvars, arg>>

\* self.find_objects(frame_blurred)
IterFindObjects ==
    /\ engine = "iterate"
    /\ pc = "iterating"
    /\ step = "objects"
    /\ \E contours \in IterContourLists :
          LET r == FindObjectsOn(ObjState, contours, frame_id)
          IN  /\ tracks' = r.st.tracks
              /\ result_tracks' = r.st.result
              /\ next_id' = r.st.next_id
              /\ call' = r.call
    /\ ret' = Done("objects")
    /\ step' = AfterObjects(frame_id)
    /\ UNCHANGED <<params, engine, pc, frame_id, burvars, arg>>

\* self.ground = self.get_ground_profile(self.ground)
IterGround ==
    /\ engine = "iterate"
    /\ pc = "iterating"
    /\ step = "ground"
    /\ ground' \in Grounds
    /\ ret' = Done("ground")
    /\ step' = AfterGround(frame_id)
    /\ UNCHANGED <<params, engine, pc, frame_id, objvars, burrow_tracks, todo,
                   bcall, burrows, mouse_trail, arg>>

\* self.find_burrows() with burrows/enabled_pass1: the regions of the mask
\* of potential burrows are labelled
IterFindBurrows ==
    /\ engine = "iterate"
    /\ pc = "iterating"
    /\ step = "burrows"
    /\ todo' \in IterRegionLists
    /\ ret' = IF todo' = <<>> THEN Done("burrows") ELSE ret
    /\ step' = IF todo' = <<>> THEN "debug" ELSE "regions"
    /\ UNCHANGED <<params, engine, pc, frame_id, objvars, burrow_tracks, bcall,
                   burrows, mouse_trail, ground, arg>>

\* the body of the loop of find_burrows for the next labelled region
IterBurrowRegion ==
    /\ engine = "iterate"
    /\ pc = "iterating"
    /\ step = "regions"
    /\ \E o \in IterOutcomes :
          /\ Possible1(burrow_tracks, Head(todo), frame_id, o)
          /\ LET r == FindBurrowsRegion(burrow_tracks, Head(todo), frame_id, o)
             IN  /\ burrow_tracks' = r.tracks
                 /\ bcall' = r.call
    /\ todo' = Tail(todo)
    /\ ret' = IF todo' = <<>> THEN Done("burrows") ELSE ret
    /\ step' = IF todo' = <<>> THEN "debug" ELSE "regions"
    /\ UNCHANGED <<params, engine, pc, frame_id, objvars, burrows, mouse_trail,
                   ground, arg>>

\* self.debug_process_frame(frame): the body of the loop is finished
IterDebug ==
    /\ engine = "iterate"
    /\ pc = "iterating"
    /\ step = "debug"
    /\ step' = "idle"
    /\ UNCHANGED <<params, engine, pc, frame_id, objvars, burvars, fnvars>>

\* the iterator is exhausted and _iterate_over_video returns
IterEnd ==
    /\ engine = "iterate"
    /\ pc = "iterating"
    /\ step = "idle"
    /\ frame_id = FrameOffset + MaxIterFrames
    /\ pc' = "done"
    /\ UNCHANGED <<params, engine, frame_id, step, objvars, burvars, fnvars>>

NextIterate ==
    \/ IterPreprocess
    \/ IterTakeFrame
    \/ IterColors
    \/ IterBackground
    \/ IterFindObjects
    \/ IterGround
    \/ IterFindBurrows
    \/ IterBurrowRegion
    \/ IterDebug
    \/ IterEnd

SpecIterate == InitIterate /\ [][NextIterate]_vars

----------------------------------------------------------------------------
(* mousetracking/algorithm/analyzer.py: get_mouse_state_transitions *)

\* number of frames of the mouse track at most
MaxStates == 4

\* largest index of a state of the list states
MaxCategory == 1

\* largest duration_threshold
MaxThreshold == 1

\* state_cat: the index of the state of each frame, -1 if the state is in
\* none of the categories
StateCats ==
    UNION { [1..n -> -1..MaxCategory] : n \in 0..MaxStates }

\* state_cat[k] with k counted from 0
At(state_cat, k) == state_cat[k + 1]

\* the loop over np.nonzero(np.diff(state_cat) != 0)[0] from index k on;
\* a transition is the triple of the two states and the duration
RECURSIVE TransitionsLoop(_, _, _, _, _)
TransitionsLoop(state_cat, duration_threshold, k, last_trans, transitions) ==
    IF k + 1 >= Len(state_cat) THEN transitions
    ELSE IF At(state_cat, k + 1) - At(state_cat, k) = 0
    THEN TransitionsLoop(state_cat, duration_threshold, k + 1, last_trans,
                         transitions)
    ELSE IF At(state_cat, k) < 0 \/ At(state_cat, k + 1) < 0
    THEN TransitionsLoop(state_cat, duration_threshold, k + 1, last_trans,
                         transitions)
    ELSE LET duration == k - last_trans
         IN  TransitionsLoop(state_cat, duration_threshold, k + 1, k,
                 IF duration > duration_threshold
                 THEN Append(transitions,
                             <<At(state_cat, k), At(state_cat, k + 1), duration>>)
                 ELSE transitions)

get_mouse_state_transitions(state_cat, duration_threshold) ==
    TransitionsLoop(state_cat, duration_threshold, 0, 0, <<>>)

InitTransitions ==
    /\ engine = "transitions"
    /\ pc = "iterating"
    /\ step = "idle"
    /\ frame_id = FrameOffset
    /\ ObjInit
    /\ BurInit
    /\ arg \in [state_cat : StateCats, duration_threshold : 0..MaxThreshold]
    /\ ret = NoRet
    /\ params = DefaultParams

\* Analyzer.get_mouse_state_transitions is called
GetTransitions ==
    /\ engine = "transitions"
    /\ pc = "iterating"
    /\ ret' = [kind |-> "transitions",
               transitions |-> get_mouse_state_transitions(
                                   arg.state_cat, arg.duration_threshold)]
    /\ pc' = "done"
    /\ UNCHANGED <<params, engine, frame_id, step, objvars, burvars, arg>>

SpecTransitions == InitTransitions /\ [][GetTransitions]_vars

----------------------------------------------------------------------------
(* ThirdPass.classify_mouse_state and ThirdPass.extend_mouse_trail.  The *)
(* mouse moves on a vertical line: a point is its y value, which grows    *)
(* downwards, and the ground line crosses the line at the y value ground. *)

\* number of frames of the trail engine
MaxTrailFrames == 3

\* largest y value of the mouse
MaxDepth == 5

\* largest y value of the ground line
MaxGround == 1

\* largest mouse/model_radius and mouse/speed_max
MaxRadius == 6

\* (np.nan, np.nan): the position of the mouse is unknown
NaN == -1

\* self.ground is None
NoGround == -1

\* self.mouse_trail = None, and the list of the points of a trail
TrailNone == [none |-> TRUE, points |-> <<>>]
TrailList(points) == [none |-> FALSE, points |-> points]

\* curves.point_distance(p1, p2)
PointDistance(p1, p2) == Abs(p1 - p2)

\* curves.get_projection_point(ground_line, point)
ProjectionPoint(gr, point) == gr

\* del self.mouse_trail[i:] for the first point i closer to the mouse than
\* spacing, if there is one
RemoveClose(points, mouse_pos, spacing) ==
    LET points_close ==
            {k \in DOMAIN points : PointDistance(points[k], mouse_pos) < spacing}
    IN  IF points_close = {} THEN points
        ELSE LET i == CHOOSE k \in points_close : \A m \in points_close : k <= m
             IN  SubSeq(points, 1, i - 1)

\* ThirdPass.extend_mouse_trail for the parameters p; the mid point is
\* rounded to the grid
extend_mouse_trail(trail, mouse_pos, gr, p) ==
    LET spacing == p.model_radius
        points == RemoveClose(trail.points, mouse_pos, spacing)
    IN  IF points # <<>>
        THEN LET moved == [points EXCEPT ![1] = ProjectionPoint(gr, points[1])]
                 p1 == moved[Len(moved)]
                 with_mid == IF PointDistance(p1, mouse_pos) > spacing
                             THEN Append(moved, (p1 + mouse_pos) \div 2)
                             ELSE moved
             IN  TrailList(Append(with_mid, mouse_pos))
        ELSE LET ground_point == ProjectionPoint(gr, mouse_pos)
                 ground_dist == PointDistance(ground_point, mouse_pos)
             IN  IF ground_dist < p.speed_max
                 THEN TrailList(<<ground_point, mouse_pos>>)
                 ELSE IF trail.none THEN TrailNone ELSE TrailList(points)

\* the mouse is below the ground line by more than the margin
\* mouse/model_radius / 2
BelowMargin(mouse_pos, gr, p) == 2 * mouse_pos > 2 * gr + p.model_radius

\* what classify_mouse_state makes of self.mouse_trail
classify_mouse_state(trail, mouse_pos, gr, p) ==
    IF mouse_pos = NaN \/ gr = NoGround THEN TrailNone
    ELSE IF BelowMargin(mouse_pos, gr, p)
    THEN extend_mouse_trail(trail, mouse_pos, gr, p)
    ELSE TrailNone

InitTrail ==
    /\ engine = "trail"
    /\ pc = "iterating"
    /\ step = "idle"
    /\ frame_id = FrameOffset
    /\ ObjInit
    /\ burrow_tracks = <<>>
    /\ todo = <<>>
    /\ bcall = NoBurrowCall
    /\ burrows = <<>>
    /\ mouse_trail = TrailNone
    /\ ground = NoGround
    /\ arg \in [model_radius : 1..MaxRadius, speed_max : 1..MaxRadius]
    /\ ret = [kind |-> "mouse", mouse_pos |-> NaN, line_string |-> TrailNone]
    /\ params = DefaultParams

\* one frame of pass 3: the position of the mouse and the ground profile of
\* the frame are taken, find_burrows builds the LineString of the trail of
\* the frame before unless it is None, and classify_mouse_state sets the
\* trail
TrailFrame ==
    /\ engine = "trail"
    /\ pc = "iterating"
    /\ frame_id < FrameOffset + MaxTrailFrames
    /\ frame_id' = frame_id + 1
    /\ \E mouse_pos \in {NaN} \cup 0..MaxDepth, gr \in {NoGround} \cup 0..MaxGround :
          /\ ground' = gr
          /\ ret' = [kind |-> "mouse", mouse_pos |-> mouse_pos,
                     line_string |-> mouse_trail]
          /\ mouse_trail' = classify_mouse_state(mouse_trail, mouse_pos, gr, arg)
    /\ UNCHANGED <<params, engine, pc, step, objvars, burrow_tracks, todo, bcall,
                   burrows, arg>>

\* the video is exhausted
EndTrail ==
    /\ engine = "trail"
    /\ pc = "iterating"
    /\ frame_id > FrameOffset
    /\ pc' = "done"
    /\ UNCHANGED <<params, engine, frame_id, step, objvars, burvars, fnvars>>

NextTrail == TrailFrame \/ EndTrail

SpecTrail == InitTrail /\ [][NextTrail]_vars

----------------------------------------------------------------------------
(* Properties of the tracks and of the burrow engines *)

StrictlyIncreasing(times) ==
    \A i \in 1..(Len(times) - 1) : times[i] < times[i + 1]

\* C2: every track, be it an object track of pass 1 or a burrow track of
\* pass 1 or of pass 3, has strictly increasing frame indices: no track
\* receives two appends with the same frame_id.
C2_StrictlyIncreasingFrames ==
    /\ \A k \in 1..Len(tracks) : StrictlyIncreasing(tracks[k].times)
    /\ \A k \in 1..Len(result_tracks) : StrictlyIncreasing(result_tracks[k].times)
    /\ \A k \in 1..Len(burrow_tracks) : StrictlyIncreasing(burrow_tracks[k].times)

\* the burrow b is in one of the burrow tracks
Written(b) ==
    \E k \in 1..Len(burrow_tracks) : b \in Range(burrow_tracks[k].burrows)

\* C8: when process() has ended nothing in progress is discarded: in pass 1
\* self.tracks is empty and every object track that was started is in
\* result['objects/tracks']; in pass 3 every burrow held in self.burrows
\* has been written to result['burrows/tracks'].
C8_NothingDiscarded ==
    pc = "done" =>
        /\ engine = "objects" =>
              /\ tracks = <<>>
              /\ \A id \in 1..(next_id - 1) : id \in IdsOf(result_tracks)
        /\ engine = "pass3" =>
              \A k \in 1..Len(burrows) : Written(burrows[k])

\* the track trk is active at frame f and its last burrow intersects the
\* candidate that covers the cells cand
MatchesCandidate(trk, cand, f) ==
    /\ BurrowLast(trk).cells \cap cand # {}
    /\ TrackEnd(trk) >= f - AdaptationInterval

BurrowCallMade == bcall.kind # "none"

\* C9: a burrow candidate of frame f is appended to a track only if the
\* last burrow of the track intersects the candidate and track_end >=
\* f - burrows/adaptation_interval; a valid candidate that matches no such
\* track starts exactly one new track at frame f; a candidate that is None
\* or not valid changes no track.  (The candidate is the burrow as it is
\* extracted or held; the burrow stored is its refined or clipped form.)
C9_CandidateRule ==
    BurrowCallMade =>
        LET before == bcall.before
            after == burrow_tracks
            unmatched == \A k \in 1..Len(before) :
                             ~MatchesCandidate(before[k], bcall.cand, bcall.frame)
        IN  /\ Len(after) >= Len(before)
            /\ \A k \in 1..Len(before) :
                  after[k] # before[k] =>
                      /\ after[k] = BurrowTrackAppend(before[k], bcall.frame,
                                                      bcall.burrow)
                      /\ MatchesCandidate(before[k], bcall.cand, bcall.frame)
                      /\ bcall.valid
            /\ (bcall.valid /\ unmatched) =>
                  after = Append(before, BurrowTrack(bcall.frame, bcall.burrow))
            /\ Len(after) > Len(before) =>
                  /\ bcall.valid /\ unmatched
                  /\ Len(after) = Len(before) + 1
            /\ ~bcall.valid => after = before

\* a track that intersects the candidate is too old, the valid candidate
\* starts a track
C9_Witness ==
    /\ bcall.kind = "new"
    /\ \E k \in 1..Len(bcall.before) :
          /\ BurrowLast(bcall.before[k]).cells \cap bcall.cand # {}
          /\ TrackEnd(bcall.before[k]) < bcall.frame - AdaptationInterval
    /\ burrow_tracks = Append(bcall.before, BurrowTrack(bcall.frame, bcall.burrow))

\* the greatest length of the last burrows of the tracks ids of trks
IsLongest(trks, ids, t) ==
    \A k \in 1..Len(ids) :
        BurrowLast(trks[ids[k]]).length <= BurrowLast(trks[t]).length

\* C10: in store_burrows a burrow that intersects more than one active
\* track is merged with the last burrow of each of them and, if valid,
\* appended at the current frame to the one of these tracks whose last
\* burrow is the longest; no other track receives it.
C10_MergeIntoLongest ==
    (engine = "pass3" /\ Len(bcall.track_ids) > 1 /\ bcall.valid) =>
        \E t \in Range(bcall.track_ids) :
            /\ IsLongest(bcall.before, bcall.track_ids, t)
            /\ burrow_tracks = [bcall.before EXCEPT ![t] =
                                   BurrowTrackAppend(@, bcall.frame, bcall.burrow)]
            /\ bcall.burrow.cells \subseteq
                   bcall.cand \cup UNION { BurrowLast(bcall.before[u]).cells :
                                            u \in Range(bcall.track_ids) }

\* the area of the polygon of a burrow
Area(b) == Cardinality(b.cells)

\* the tracks ids that active_burrows yields at the store_burrows call that
\* follows the one of frame f
ActiveAtNextStore(trks, ids, f) ==
    {t \in Range(ids) : TrackEnd(trks[t]) >= (f + AdaptationInterval) - AdaptationInterval}

\* C11: after store_burrows has merged a current burrow that overlapped two
\* active tracks, exactly one of the two tracks is active at the following
\* store_burrows call, and the area of its last burrow is at least the
\* greatest area of the last burrows that were merged.
C11_OneActiveAfterMerge ==
    (engine = "pass3" /\ Len(bcall.track_ids) = 2) =>
        LET act == ActiveAtNextStore(burrow_tracks, bcall.track_ids, bcall.frame)
        IN  /\ Cardinality(act) = 1
            /\ \A t \in act : \A u \in Range(bcall.track_ids) :
                  Area(BurrowLast(burrow_tracks[t])) >=
                      Area(BurrowLast(bcall.before[u]))

----------------------------------------------------------------------------
(* Properties of the extraction and the refinement of burrows *)

\* the area of the largest region of a mask, 0 if there is none
LargestArea(mask) ==
    IF mask.areas = <<>> THEN 0 ELSE mask.areas[ArgMax(mask.areas)]

Extracted == engine = "mask" /\ pc = "done"

\* C12: for every mask whose largest region has an area below
\* burrows/area_min, a mask with no region at all included,
\* get_burrow_from_mask fails with 'Burrow is too small' and returns no
\* Burrow.
C12_AreaTooSmall ==
    (Extracted /\ LargestArea(arg) < BurrowAreaMin) =>
        ret = RaiseRuntimeError("Burrow is too small")

\* C13: when the extraction fails for a labelled region, find_burrows
\* creates and appends no burrow track for it, goes on with the remaining
\* regions of the frame, and no exception leaves it.
C13_FailedExtraction ==
    [][(engine = "burrows1" /\ step = "regions" /\ bcall'.kind = "failed") =>
          /\ burrow_tracks' = burrow_tracks
          /\ todo' = Tail(todo)
          /\ step' = IF Tail(todo) = <<>> THEN "idle" ELSE "regions"
          /\ pc' = "iterating"
          /\ frame_id' = frame_id]_vars

\* the extraction has failed for the first region of a frame, a burrow
\* track exists and another region is left
C13_Witness ==
    /\ engine = "burrows1"
    /\ bcall.kind = "failed"
    /\ bcall.before # <<>>
    /\ burrow_tracks = bcall.before
    /\ step = "regions"
    /\ todo # <<>>

Refined(fn) == engine = "refine" /\ pc = "done" /\ arg.fn = fn

\* the segmentation of refine_bulky_burrow fails: cv2.grabCut raises or no
\* burrow can be extracted from the segmented mask
SegmentationFailed(a) ==
    \/ a.grabcut = "raises"
    \/ GetBurrowFromMask(a.mask).kind = "RuntimeError"

\* C14: whenever the segmentation fails, refine_bulky_burrow returns the
\* unrefined input burrow unchanged.
C14_BulkyFailureKeepsBurrow ==
    (Refined("bulky") /\ SegmentationFailed(arg)) => ret = arg.burrow

\* the refinement of refine_long_burrow fails after the scan
LongFailed(a) ==
    a.centerline_new < 2 \/ a.outline \in {"empty", "rejected"}

Extended == engine = "extend" /\ pc = "done"

\* C16: extend_burrow_by_mouse_trail replaces the contour by the outline
\* of (burrow polygon union the trail buffered by burrows/width_min)
\* intersected with the cage interior, and sets the centerline to the
\* trail if and only if the trail is longer than the burrow; otherwise the
\* centerline is unchanged.
C16_ExtendByTrail ==
    Extended =>
        /\ \A x \in VideoCells :
              x \in ret.cells <=>
                  /\ 1 <= x /\ x <= VideoWidth - 1
                  /\ \/ x \in arg.burrow.cells
                     \/ \E y \in arg.trail : Abs(x - y) <= arg.trail_width
        /\ ret.cells \subseteq VideoCells
        /\ (TrailLength(arg.trail) > arg.burrow.length) =>
              (ret.centerline = arg.trail /\ ret.length = TrailLength(arg.trail))
        /\ ~(TrailLength(arg.trail) > arg.burrow.length) =>
              (ret.centerline = arg.burrow.centerline
               /\ ret.length = arg.burrow.length)

\* the buffered trail reaches over the border of the cage and is clipped;
\* the trail is as long as the burrow and the centerline stays
C16_Witness ==
    /\ Extended
    /\ \E y \in arg.trail : (y - arg.trail_width) < 1
    /\ arg.trail_width > 0
    /\ ret.cells # arg.burrow.cells
    /\ TrailLength(arg.trail) = arg.burrow.length
    /\ ret.centerline = OldCenterline

----------------------------------------------------------------------------
(* Properties of the score and of the order of the bindings *)

\* one observation met one active track
OneOnOne ==
    /\ engine = "single"
    /\ Matched
    /\ Len(call.objects_found) = 1
    /\ Len(call.before) = 1

\* alpha*distance/speed_max + (1-alpha)*|a1-a2|/(a1+a2)/max_rel_area_change
\* in 1/Milli; distance is taken from the predicted position of the track
SingleScore(obs, trk) ==
    (params.alpha_num
        * (DistMilli(obs.pos, PredictPos(trk)) \div params.speed_max)
     + (params.alpha_den - params.alpha_num)
        * ((((Milli * Abs(obs.size - Last(trk).size))
                \div (obs.size + Last(trk).size))
             * params.max_rel_area_den) \div params.max_rel_area_num))
    \div params.alpha_den

\* the track of call.before is continued with the observation
Continued ==
    /\ call.after = <<TrackAppend(call.before[1], frame_id, call.objects_found[1])>>
    /\ call.result_after = call.result_before

\* C17: with one observation and one active track the track is continued
\* if and only if the score is <= 1, hence always when both tolerances are
\* boundless; (10,10,100) in frame 1 and (11,11,102) in frame 2 with
\* speed_max = 5 and max_rel_area_change = 0.5 give one track with both
\* observations at frames 1 and 2, nothing finalized, nothing started.
C17_SingleMatch ==
    OneOnOne =>
        LET obs == call.objects_found[1]
            trk == call.before[1]
        IN  /\ Continued <=> SingleScore(obs, trk) <= Milli
            /\ (params.speed_max = Boundless
                /\ params.max_rel_area_num = Boundless) => Continued
            /\ (/\ params.speed_max = 5
                /\ params.max_rel_area_num = 1 /\ params.max_rel_area_den = 2
                /\ trk.times = <<1>>
                /\ Last(trk).pos = <<10, 10>> /\ Last(trk).size = 100
                /\ obs.pos = <<11, 11>> /\ obs.size = 102) =>
                   /\ Len(tracks) = 1
                   /\ tracks[1].times = <<1, 2>>
                   /\ tracks[1].objects[1].size = 100
                   /\ tracks[1].objects[2].size = 102
                   /\ tracks[1].id = trk.id
                   /\ result_tracks = <<>>

\* the two frames of the scenario have been handled
C17_Witness ==
    /\ OneOnOne
    /\ params.speed_max = 5
    /\ params.max_rel_area_num = 1
    /\ frame_id = 2
    /\ Len(tracks) = 1
    /\ tracks[1].times = <<1, 2>>
    /\ tracks[1].objects[1].pos = <<10, 10>>
    /\ tracks[1].objects[2].pos = <<11, 11>>
    /\ tracks[1].objects[2].size = 102

\* the sequence s in reversed order
Reversed(s) == [k \in 1..Len(s) |-> s[Len(s) + 1 - k]]

\* the pairs <<i_f, i_e>> that are not bound before binding k of the call
Remaining(k) ==
    { q \in DOMAIN call.score :
        \A m \in 1..(k - 1) :
            call.binds[m][1] # q[1] /\ call.binds[m][2] # q[2] }

\* the track j of call.before after the bindings of the call
BoundTrack(j) ==
    IF j \in BoundE
    THEN LET k == CHOOSE m \in 1..Len(call.binds) : call.binds[m][2] = j
         IN  TrackAppend(call.before[j], frame_id,
                         call.objects_found[call.binds[k][1]])
    ELSE call.before[j]

\* C18: among the remaining entries of the score matrix that equal the
\* minimum the greedy loop binds the first one in row-major order (lowest
\* observation index, then lowest track index); the bindings, the finalized
\* tracks and the new tracks are determined by the ordered observations
\* and the ordered active tracks, so that two runs on the same lists agree.
C18_RowMajorTieBreak ==
    (engine = "objects" /\ Matched) =>
        LET n_f == Len(call.objects_found)
            n_e == Len(call.before)
            n_b == Len(call.binds)
            n_rb == Len(call.result_before)
            free_f == SelectIdx([i \in 1..n_f |-> i], (1..n_f) \ BoundF, 1)
        IN  /\ \A k \in 1..n_b : \A q \in Remaining(k) :
                  call.score[q] = call.binds[k][3] =>
                      \/ call.binds[k][1] < q[1]
                      \/ call.binds[k][1] = q[1] /\ call.binds[k][2] <= q[2]
            /\ \A q \in Remaining(n_b + 1) : call.score[q] > Milli
            /\ call.result_after =
                  call.result_before
                      \o Reversed(SelectIdx(call.before, (1..n_e) \ BoundE, 1))
            /\ Len(call.after) = n_b + Len(free_f)
            /\ SubSeq(call.after, 1, n_b) =
                  SelectIdx([j \in 1..n_e |-> BoundTrack(j)], BoundE, 1)
            /\ \A m \in 1..Len(free_f) :
                  /\ call.after[n_b + m].times = <<frame_id>>
                  /\ call.after[n_b + m].objects = <<call.objects_found[free_f[m]]>>

\* two remaining entries had the minimal score when a pair was bound
C18_Witness ==
    /\ engine = "objects"
    /\ Matched
    /\ \E k \in 1..Len(call.binds) : \E q \in Remaining(k) :
          /\ q # <<call.binds[k][1], call.binds[k][2]>>
          /\ call.score[q] = call.binds[k][3]
          /\ call.binds[k][2] < q[2]

----------------------------------------------------------------------------
(* Properties of the parts of the underground video *)

PartsMade == engine = "parts" /\ pc = "done"

\* the total duration of the bouts
RECURSIVE TotalDuration(_)
TotalDuration(bouts) ==
    IF bouts = <<>> THEN 0
    ELSE (Head(bouts)[2] - Head(bouts)[1]) + TotalDuration(Tail(bouts))

\* C19: every slice get_video_parts returns that contains more than one
\* bout has a total duration of at most video_length, and a bout that alone
\* is longer than video_length is returned as a slice containing only that
\* bout.
C19_PartsWithinLength ==
    PartsMade =>
        /\ \A k \in DOMAIN ret.video_parts :
               LET part == ApplySlice(arg.bouts, ret.video_parts[k])
               IN  Len(part) > 1 => TotalDuration(part) <= arg.video_length
        /\ \A i \in DOMAIN arg.bouts :
               arg.bouts[i][2] - arg.bouts[i][1] > arg.video_length =>
                   \E k \in DOMAIN ret.video_parts :
                       ret.video_parts[k] = Slice(i - 1, i)


----------------------------------------------------------------------------
(* Properties of the order of the steps of _iterate_over_video *)

\* the place of a step in the order of the loop body
Rank(name) == CHOOSE i \in DOMAIN StepOrder : StepOrder[i] = name

\* the steps were done in the order of the loop body, none of them twice
InOrder(steps) ==
    \A i, j \in DOMAIN steps : i < j => Rank(steps[i]) < Rank(steps[j])

\* the steps of frame f are finished: the background model is updated, and
\* all four steps are done for an analysed frame on which the ground profile
\* and the burrows are due
Finished(f, steps) ==
    /\ "background" \in Range(steps)
    /\ (do_analysis(f) /\ do_ground(f) /\ do_burrows(f)) => steps = StepOrder

----------------------------------------------------------------------------
(* Properties of the life of the tracks *)

\* the burrow track is not active at frame f
Inactive(t, f) == TrackEnd(t) < f - AdaptationInterval

----------------------------------------------------------------------------
(* Properties of the current burrows of pass 3 *)

\* store_burrows is called: no burrow of self.burrows is handled yet
StoreCalled ==
    engine = "pass3" /\ step = "store" /\ Len(todo) = Len(burrows)

\* the ids of the burrows of self.burrows that intersect the last burrow of
\* the track
BurrowsOnTrack(t) ==
    { i \in DOMAIN burrows : Intersects(BurrowLast(t), burrows[i]) }

----------------------------------------------------------------------------
(* Properties of the transitions of the mouse state *)

TransitionsMade == engine = "transitions" /\ pc = "done"

\* the number of consecutive frames up to frame k (counted from 0) in which
\* the state is the one of frame k
RECURSIVE RunLength(_, _)
RunLength(state_cat, k) ==
    IF k > 0 /\ At(state_cat, k - 1) = At(state_cat, k)
    THEN RunLength(state_cat, k - 1) + 1
    ELSE 1

\* the transitions between categorized states from frame k on, each with the
\* length of the run before it, those below the threshold left out
RECURSIVE RunTransitions(_, _, _)
RunTransitions(state_cat, duration_threshold, k) ==
    IF k + 1 >= Len(state_cat) THEN <<>>
    ELSE (IF /\ At(state_cat, k) # At(state_cat, k + 1)
             /\ At(state_cat, k) >= 0
             /\ At(state_cat, k + 1) >= 0
             /\ RunLength(state_cat, k) >= duration_threshold
          THEN << <<At(state_cat, k), At(state_cat, k + 1),
                    RunLength(state_cat, k)>> >>
          ELSE <<>>)
         \o RunTransitions(state_cat, duration_threshold, k + 1)

\* C23: the duration recorded for a transition a -> b between categorized
\* states is the number of consecutive frames in state a right before the
\* switch, also for the first run and after an uncategorized state;
\* transitions with a duration below duration_threshold are left out and all
\* others are recorded.
C23_RunDurations ==
    TransitionsMade =>
        ret.transitions =
            RunTransitions(arg.state_cat, arg.duration_threshold, 0)


----------------------------------------------------------------------------
(* Properties of the object tracks over the frames of pass 1 *)

\* the places at which the track with the id is held
Holders(id) ==
    Cardinality({i \in DOMAIN tracks : tracks[i].id = id})
        + Cardinality({i \in DOMAIN result_tracks : result_tracks[i].id = id})

Consecutive(times) ==
    \A k \in 1..(Len(times) - 1) : times[k + 1] = times[k] + 1

\* C25: after every call of find_objects the last observation of every
\* track of self.tracks is of the current frame, and the frames of every
\* object track are consecutive.
C25_ActiveUpToDate ==
    engine = "objects" =>
        /\ \A k \in DOMAIN tracks :
               tracks[k].times[Len(tracks[k].times)] = frame_id
        /\ \A k \in DOMAIN tracks : Consecutive(tracks[k].times)
        /\ \A k \in DOMAIN result_tracks : Consecutive(result_tracks[k].times)

\* two tracks were continued in the second frame and are active
C25_Witness ==
    /\ engine = "objects"
    /\ pc = "iterating"
    /\ call.branch = "match"
    /\ Len(call.binds) = 2
    /\ \E k \in DOMAIN tracks : Len(tracks[k].times) = 2


----------------------------------------------------------------------------
(* Properties of the track of the merged burrow *)

\* C26: whenever store_burrows has a valid merged burrow to append in the
\* branch len(track_ids) > 1, track_longest is the id of one of the
\* overlapping tracks, never None, whatever the lengths of their last
\* burrows are.
C26_TrackLongestSet ==
    (engine = "pass3" /\ Len(bcall.track_ids) > 1 /\ bcall.valid) =>
        /\ bcall.kind = "append"
        /\ bcall.target \in Range(bcall.track_ids)


----------------------------------------------------------------------------
(* Properties of the mouse trail *)

\* classify_mouse_state was called in this frame
Classified == engine = "trail" /\ frame_id > FrameOffset

\* C27: after every call of classify_mouse_state self.mouse_trail is None or
\* a list of at least two points that starts with the projection onto the
\* ground line and ends with the position of the mouse; it is None whenever
\* the mouse is not below the ground or its position or the ground is
\* unknown; and the list find_burrows builds a LineString from has at least
\* two points.
C27_TrailShape ==
    Classified =>
        /\ \/ mouse_trail.none
           \/ /\ Len(mouse_trail.points) >= 2
              /\ mouse_trail.points[1] = ProjectionPoint(ground, mouse_trail.points[1])
              /\ mouse_trail.points[Len(mouse_trail.points)] = ret.mouse_pos
        /\ (ret.mouse_pos = NaN \/ ground = NoGround \/ ret.mouse_pos <= ground)
               => mouse_trail.none
        /\ ~ret.line_string.none => Len(ret.line_string.points) >= 2


----------------------------------------------------------------------------
(* Properties of the first analysed frame of pass 1 *)

\* the first frame of the loop for which do_analysis holds
FirstAnalysed ==
    IF arg.analyze_start > FrameOffset + 1 THEN arg.analyze_start
    ELSE FrameOffset + 1

\* C28: in the first frame for which do_analysis holds the colors are
\* estimated, then the ground profile is determined and the burrow detection
\* runs, whether or not frame_id is a multiple of the adaptation intervals.
C28_FirstFrameAnalysis ==
    (engine = "iterate" /\ step = "debug" /\ frame_id = FirstAnalysed) =>
        /\ ~arg.never_analyzed
        /\ "ground" \in Range(ret.steps)
        /\ "burrows" \in Range(ret.steps)


----------------------------------------------------------------------------
(* Properties of the slices of get_video_parts *)

\* C29: the slices get_video_parts returns are not empty, follow each other
\* without gap or overlap, and cover the indices 0..len(bouts)-1 of the
\* bouts in order; an empty list of bouts yields no slice.
C29_SlicesPartition ==
    PartsMade =>
        LET parts == ret.video_parts
            n == Len(arg.bouts)
        IN  /\ (n = 0) <=> (parts = <<>>)
            /\ \A k \in DOMAIN parts : parts[k].start < parts[k].stop
            /\ parts # <<>> =>
                   (parts[1].start = 0 /\ parts[Len(parts)].stop = n)
            /\ \A k \in 1..(Len(parts) - 1) : parts[k].stop = parts[k + 1].start

\* three bouts were cut into slices of one and of two bouts
C29_Witness ==
    /\ PartsMade
    /\ Len(arg.bouts) = MaxBouts
    /\ Len(ret.video_parts) = 2
    /\ \E k \in DOMAIN ret.video_parts :
          ret.video_parts[k].stop - ret.video_parts[k].start = 2


=============================================================================
